---- MODULE Spec2Model ----
(***************************************************************************)
(* A model of the wolfdog static site generator (src/unnamed/part_003,     *)
(* lines 519-994: the current index.ts; src/src/junkyard.ts; and the       *)
(* manifest schema of src/unnamed/part_001).                               *)
(*                                                                         *)
(* Strings are sequences of one-character strings, so that startsWith,     *)
(* the regular expressions and node's path functions are computed on the   *)
(* characters, as the code computes them.                                  *)
(***************************************************************************)
EXTENDS Integers, Sequences, FiniteSets, TLC

VARIABLES
  pc,              \* where main() is
  VERSION,         \* the generator's version string (package.json)
  manifestDirAbs,  \* the site directory, absolute
  manifest,        \* the parsed manifest
  versionOk,       \* what checkManifestVersion returned ("none" before)
  sanityOk,        \* what manifestSanityChecks returned ("none" before)
  log,             \* the lines LOGGER.error and LOGGER.warn wrote
  staticTree,      \* the files under the static assets directory
  postTree,        \* the files under the post input directory
  partialTree,     \* the files under the partial templates directory
  pageTree,        \* the files under the additional pages directory
  outFs,           \* what exists in the output directory
  writes,          \* the filesystem writes of this run, in order
  queue,           \* the stack of readdirR
  posts,           \* readAllPosts: the object slug -> {htmlFile, jsonFile}
  unrecognized,    \* readAllPosts: files with neither extension
  discovered,      \* the files readdirR yielded, in order
  result,          \* readAllPosts: the list being built
  allPosts,        \* the list readAllPosts returned ("none" before)
  idx,             \* the position of a for loop over a list
  partials,        \* the partials registered with Handlebars
  allPostsForScope,\* the allPosts list given to the page templates
  settled,         \* the posts whose scope construction completed, in order
  foundAny,        \* templateAndWriteAdditionalPages: a page was written
  metaJson,        \* the content of each metadata file of the post directory
  runNo,           \* 1 in the first run on the site, 2 in the run after it
  firstRun         \* what the first run left: the output and the post list

vars == <<pc, VERSION, manifestDirAbs, manifest, versionOk, sanityOk, log,
          staticTree, postTree, partialTree, pageTree, outFs, writes, queue,
          posts, unrecognized, discovered, result, allPosts, idx, partials,
          allPostsForScope, settled, foundAny, metaJson, runNo, firstRun>>

NONE == "none"
\* a boolean a function returned, beside NONE
Bool(b) == IF b THEN "true" ELSE "false"

(***************************************************************************)
(* Characters and strings                                                  *)
(***************************************************************************)
SLASH == "/"
DOT == "."

Digits == <<"0", "1", "2", "3", "4", "5", "6", "7", "8", "9">>

UpperChars == <<"A", "B", "C", "D", "E", "F", "G", "H", "I", "J", "K", "L", "M",
                "N", "O", "P", "Q", "R", "S", "T", "U", "V", "W", "X", "Y", "Z">>
LowerChars == <<"a", "b", "c", "d", "e", "f", "g", "h", "i", "j", "k", "l", "m",
                "n", "o", "p", "q", "r", "s", "t", "u", "v", "w", "x", "y", "z">>

IsDigit(c) == \E i \in DOMAIN Digits : Digits[i] = c
DigitVal(c) == (CHOOSE i \in DOMAIN Digits : Digits[i] = c) - 1

\* the /i flag of a regular expression: letters compare by their lower case
ToLowerChar(c) ==
  IF \E i \in DOMAIN UpperChars : UpperChars[i] = c
  THEN LowerChars[CHOOSE i \in DOMAIN UpperChars : UpperChars[i] = c]
  ELSE c
ToLower(s) == [i \in DOMAIN s |-> ToLowerChar(s[i])]

\* String.prototype.startsWith
StartsWith(s, p) == Len(p) <= Len(s) /\ SubSeq(s, 1, Len(p)) = p

\* s.match(/<suffix>$/i), for a literal lower-case suffix
MatchesSuffixCI(s, suffix) ==
  /\ Len(suffix) <= Len(s)
  /\ ToLower(SubSeq(s, Len(s) - Len(suffix) + 1, Len(s))) = suffix

\* s.replace(/<suffix>$/i, ""), for a literal lower-case suffix
RemoveSuffixCI(s, suffix) ==
  IF MatchesSuffixCI(s, suffix) THEN SubSeq(s, 1, Len(s) - Len(suffix)) ELSE s

\* s.split(sep) for a one-character separator
RECURSIVE Split(_, _)
Split(s, sep) ==
  IF \A i \in DOMAIN s : s[i] # sep
  THEN <<s>>
  ELSE LET k == CHOOSE i \in DOMAIN s :
                  s[i] = sep /\ \A j \in 1..(i - 1) : s[j] # sep
       IN <<SubSeq(s, 1, k - 1)>> \o Split(SubSeq(s, k + 1, Len(s)), sep)

\* parts.join(sep)
RECURSIVE Join(_, _)
Join(parts, sep) ==
  IF parts = <<>> THEN <<>>
  ELSE IF Len(parts) = 1 THEN parts[1]
  ELSE parts[1] \o <<sep>> \o Join(Tail(parts), sep)

\* parseInt of a string of decimal digits
RECURSIVE ParseInt(_)
ParseInt(s) ==
  IF s = <<>> THEN 0
  ELSE 10 * ParseInt(SubSeq(s, 1, Len(s) - 1)) + DigitVal(s[Len(s)])

(***************************************************************************)
(* node:path (posix)                                                       *)
(***************************************************************************)
\* normalizeString: "" and "." segments are dropped, ".." removes the segment
\* before it; above the root of an absolute path ".." is dropped
RECURSIVE NormalizeSegments(_, _)
NormalizeSegments(segs, acc) ==
  IF segs = <<>> THEN acc
  ELSE LET s == Head(segs)
       IN IF s = <<>> \/ s = <<DOT>>
          THEN NormalizeSegments(Tail(segs), acc)
          ELSE IF s = <<DOT, DOT>>
          THEN NormalizeSegments(Tail(segs),
                 IF acc = <<>> THEN acc ELSE SubSeq(acc, 1, Len(acc) - 1))
          ELSE NormalizeSegments(Tail(segs), Append(acc, s))

IsAbsolute(p) == p # <<>> /\ p[1] = SLASH

\* the segments of an absolute path, normalized
AbsSegments(p) == NormalizeSegments(Split(p, SLASH), <<>>)

\* path.resolve(from, to) with `from` absolute: no trailing slash in the result
PathResolve(from, to) ==
  LET joined == IF IsAbsolute(to) THEN to ELSE from \o <<SLASH>> \o to
  IN <<SLASH>> \o Join(AbsSegments(joined), SLASH)

\* path.join(a, b) with `a` absolute: normalized, a trailing slash is kept
PathJoin(a, b) ==
  LET joined == IF b = <<>> THEN a ELSE a \o <<SLASH>> \o b
      body == <<SLASH>> \o Join(AbsSegments(joined), SLASH)
  IN IF joined[Len(joined)] = SLASH /\ AbsSegments(joined) # <<>>
     THEN body \o <<SLASH>>
     ELSE body

\* path.join(a, b) of two relative paths without "." or ".." segments
RelJoin(a, b) == a \o <<SLASH>> \o b

\* path.dirname of an absolute path
PathDirname(p) ==
  LET q == IF Len(p) > 1 /\ p[Len(p)] = SLASH THEN SubSeq(p, 1, Len(p) - 1) ELSE p
      slashes == {i \in DOMAIN q : q[i] = SLASH}
      last == CHOOSE i \in slashes : \A j \in slashes : j <= i
  IN IF last = 1 THEN <<SLASH>> ELSE SubSeq(q, 1, last - 1)

(***************************************************************************)
(* Log lines                                                               *)
(***************************************************************************)
\* one LOGGER.error or LOGGER.warn line: what it says, about which role
\* (name), and the paths or slugs it lists
LogLine(level, kind, name, items) ==
  [level |-> level, kind |-> kind, name |-> name, items |-> items]

(***************************************************************************)
(* The manifest                                                            *)
(***************************************************************************)
\* the defaults of schemaSiteManifest (src/unnamed/part_001, lines 4-114)
DEFAULT_outputDir == <<"d", "i", "s", "t", "/">>
DEFAULT_staticAssetsInputDir == <<"s", "t", "a", "t", "i", "c", "/">>
DEFAULT_partialTemplatesDir == <<"t", "e", "m", "p", "l", "a", "t", "e", "s", "/", "p", "a", "r", "t", "i", "a", "l", "s", "/">>
DEFAULT_additionalPageTemplatesDir == <<"t", "e", "m", "p", "l", "a", "t", "e", "s", "/", "a", "d", "d", "i", "t", "i", "o", "n", "a", "l", "P", "a", "g", "e", "s", "/">>
DEFAULT_postInputDir == <<"p", "o", "s", "t", "s", "/">>
DEFAULT_postTemplate == <<"t", "e", "m", "p", "l", "a", "t", "e", "s", "/", "p", "o", "s", "t", ".", "h", "t", "m", "l", ".", "h", "b", "s">>
DEFAULT_postOutputFileTemplate == <<"p", "o", "s", "t", "s", "/", "{", "{", "p", "o", "s", "t", ".", "s", "l", "u", "g", "}", "}", "/", "i", "n", "d", "e", "x", ".", "h", "t", "m", "l">>
DEFAULT_formatString == <<"D", "D", "D">>
DEFAULT_locale == <<"e", "n", "-", "U", "S">>

\* a manifest as schemaSiteManifest.parse returns it; valid is FALSE when
\* JSON.parse or schemaSiteManifest.parse throws
Manifest(ver, out, static, partialsDir, pagesDir, postIn, postTpl) ==
  [valid |-> TRUE,
   version |-> ver,
   outputDir |-> out,
   staticAssetsInputDir |-> static,
   partialTemplatesDir |-> partialsDir,
   additionalPageTemplatesDir |-> pagesDir,
   postSettings |->
     [present |-> TRUE,
      postInputDir |-> postIn,
      postOutputFileTemplate |-> DEFAULT_postOutputFileTemplate,
      postTemplate |-> postTpl,
      postPubDate |-> [present |-> TRUE,
                       formatString |-> DEFAULT_formatString,
                       locale |-> DEFAULT_locale]]]

\* a key that the JSON of the manifest does not have
ABSENT == <<"absent">>

\* z.string().default(d)
StringOrDefault(value, d) == IF value = ABSENT THEN d ELSE value

\* DEFAULT_POST_SETTINGS (lines 4-12)
DEFAULT_POST_SETTINGS ==
  [present |-> TRUE,
   postInputDir |-> DEFAULT_postInputDir,
   postOutputFileTemplate |-> DEFAULT_postOutputFileTemplate,
   postTemplate |-> DEFAULT_postTemplate,
   postPubDate |-> [present |-> TRUE,
                    formatString |-> DEFAULT_formatString,
                    locale |-> DEFAULT_locale]]

\* schemaSiteManifest.parse (lines 14-114) of the JSON of a manifest: an
\* object that is absent gets its whole default, a string that is absent
\* gets its own
schemaSiteManifest_parse(raw) ==
  [raw EXCEPT
     !.outputDir = StringOrDefault(@, DEFAULT_outputDir),
     !.staticAssetsInputDir = StringOrDefault(@, DEFAULT_staticAssetsInputDir),
     !.partialTemplatesDir = StringOrDefault(@, DEFAULT_partialTemplatesDir),
     !.additionalPageTemplatesDir =
        StringOrDefault(@, DEFAULT_additionalPageTemplatesDir),
     !.postSettings =
        IF ~ @.present THEN DEFAULT_POST_SETTINGS
        ELSE [present |-> TRUE,
              postInputDir |-> StringOrDefault(@.postInputDir, DEFAULT_postInputDir),
              postOutputFileTemplate |->
                StringOrDefault(@.postOutputFileTemplate, DEFAULT_postOutputFileTemplate),
              postTemplate |-> StringOrDefault(@.postTemplate, DEFAULT_postTemplate),
              postPubDate |->
                IF ~ @.postPubDate.present THEN DEFAULT_POST_SETTINGS.postPubDate
                ELSE [present |-> TRUE,
                      formatString |->
                        StringOrDefault(@.postPubDate.formatString, DEFAULT_formatString),
                      locale |-> StringOrDefault(@.postPubDate.locale, DEFAULT_locale)]]]

(***************************************************************************)
(* checkManifestVersion                                                    *)
(***************************************************************************)
\* version.match(PATTERN_VERSION): three dot-separated runs of digits
MatchesPatternVersion(version) ==
  LET parts == Split(version, DOT)
  IN /\ Len(parts) = 3
     /\ \A i \in 1..3 :
          parts[i] # <<>> /\ \A j \in DOMAIN parts[i] : IsDigit(parts[i][j])

parseVersion(version) ==
  LET parts == Split(version, DOT)
  IN [major |-> ParseInt(parts[1]),
      minor |-> ParseInt(parts[2]),
      revision |-> ParseInt(parts[3])]

\* the same with the revisions compared by <=: a manifest of the generator's
\* own version is refused
checkManifestVersion_RevisionLeq(currentVersionStr, manifestVersionStr) ==
  LET currentVersion == parseVersion(currentVersionStr)
      manifestVersion == parseVersion(manifestVersionStr)
  IN ~ \/ currentVersion.major # manifestVersion.major
       \/ currentVersion.minor < manifestVersion.minor
       \/ /\ currentVersion.minor = manifestVersion.minor
          /\ currentVersion.revision <= manifestVersion.revision

\* what checkManifestVersion returns when both strings parse
checkManifestVersion(currentVersionStr, manifestVersionStr) ==
  LET currentVersion == parseVersion(currentVersionStr)
      manifestVersion == parseVersion(manifestVersionStr)
  IN ~ \/ currentVersion.major # manifestVersion.major
       \/ currentVersion.minor < manifestVersion.minor
       \/ /\ currentVersion.minor = manifestVersion.minor
          /\ currentVersion.revision < manifestVersion.revision

(***************************************************************************)
(* manifestSanityChecks                                                    *)
(***************************************************************************)
\* TRUE when the check passes; the caller logs when it does not
checkIfOutsideOfProjectDir(projectDir, directoryToCheck) ==
  StartsWith(directoryToCheck, projectDir)

checkIfInsideOutputDir(outputDir, directoryToCheck) ==
  ~ StartsWith(directoryToCheck, outputDir)

OutsideLine(name, directoryToCheck) ==
  LogLine("error", "outside of the project directory", name, <<directoryToCheck>>)

InsideLine(name, directoryToCheck) ==
  LogLine("error", "inside of the output directory", name, <<directoryToCheck>>)

\* isValid &&= check(...): the check is called, and logs, only while isValid
AndAssign(st, ok, line) ==
  IF st.isValid
  THEN [isValid |-> ok, lines |-> IF ok THEN st.lines ELSE Append(st.lines, line)]
  ELSE st

\* the project directory without the "/" appended: /px passes for /p
AbsBase_NoSlash(baseDir) == PathResolve(baseDir, <<>>)

AbsBase(baseDir) == PathResolve(baseDir, <<>>) \o <<SLASH>>

AbsOut(baseDir, m) == PathResolve(AbsBase(baseDir), m.outputDir)

pathsToCheck(m) ==
  << [relPath |-> m.postSettings.postInputDir, name |-> "post input directory"],
     [relPath |-> m.postSettings.postTemplate, name |-> "post template"],
     [relPath |-> m.staticAssetsInputDir, name |-> "static asset directory"],
     [relPath |-> m.partialTemplatesDir, name |-> "partial templates directory"],
     [relPath |-> m.additionalPageTemplatesDir,
      name |-> "additional page template directory"] >>

RECURSIVE SanityLoop(_, _, _, _)
SanityLoop(paths, absBase, absOut, st) ==
  IF paths = <<>> THEN st
  ELSE LET absPath == PathResolve(absBase, Head(paths).relPath)
           name == Head(paths).name
           s1 == AndAssign(st, checkIfOutsideOfProjectDir(absBase, absPath),
                           OutsideLine(name, absPath))
           s2 == AndAssign(s1, checkIfInsideOutputDir(absOut, absPath),
                           InsideLine(name, absPath))
       IN SanityLoop(Tail(paths), absBase, absOut, s2)

\* [isValid, lines]: what manifestSanityChecks returns and what it logs
manifestSanityChecks(baseDir, m) ==
  LET absBase == AbsBase(baseDir)
      absOut == AbsOut(baseDir, m)
      s0 == AndAssign([isValid |-> TRUE, lines |-> <<>>],
                      checkIfOutsideOfProjectDir(absBase, absOut),
                      OutsideLine("output directory", absOut))
  IN SanityLoop(pathsToCheck(m), absBase, absOut, s0)

(***************************************************************************)
(* Directory trees (the input directories) and readdirR                    *)
(***************************************************************************)
SlashesOf(p) == {i \in DOMAIN p : p[i] = SLASH}

\* the directories a relative file path lies in
ParentDirs(p) == {SubSeq(p, 1, i - 1) : i \in SlashesOf(p)}

\* a directory that exists: its files and its subdirectories, as paths
\* relative to it
Tree(files, emptyDirs) ==
  [exists |-> TRUE,
   files |-> files,
   dirs |-> UNION {ParentDirs(f) : f \in files}
              \cup emptyDirs \cup UNION {ParentDirs(d) : d \in emptyDirs}]

\* a directory that does not exist (ENOENT)
NoDir == [exists |-> FALSE, files |-> {}, dirs |-> {}]

ROOT == <<>>

ParentOf(p) ==
  IF SlashesOf(p) = {} THEN ROOT
  ELSE SubSeq(p, 1, (CHOOSE i \in SlashesOf(p) : \A j \in SlashesOf(p) : j <= i) - 1)

BaseName(p) ==
  IF SlashesOf(p) = {} THEN p
  ELSE SubSeq(p, (CHOOSE i \in SlashesOf(p) : \A j \in SlashesOf(p) : j <= i) + 1, Len(p))

\* the names fs.readdir(dir) returns, as a set: the order is the file system's
Listing(tree, dir) ==
  {BaseName(e) : e \in {x \in tree.files \cup tree.dirs : ParentOf(x) = dir}}

\* every order fs.readdir may return the names of S in
Orders(S) ==
  {o \in [1..Cardinality(S) -> S] : \A i, j \in 1..Cardinality(S) : o[i] = o[j] => i = j}

\* fileExists answering true for a directory that is not there
fileExists_Always(tree) == TRUE

\* fileExists (junkyard.ts): ENOENT is false
fileExists(tree) == tree.exists

\* readdirR line 15: the stack starts as the listing of inDir
ReaddirRStart(tree, order) ==
  IF ~ fileExists(tree) THEN <<>> ELSE order

\* readdirR line 17: queue.pop()
Popped(q) == q[Len(q)]
AfterPop(q) == SubSeq(q, 1, Len(q) - 1)

\* the same taking every entry for a file
IsDirectory_Never(tree, item) == FALSE

\* readdirR line 20: (await fs.stat(itemAbs)).isDirectory()
IsDirectory(tree, item) == item \in tree.dirs

\* the same pushing the names as listed, not joined to the directory
PushListing_BareNames(q, item, order) == AfterPop(q) \o order

\* readdirR lines 21-22: the listing of the directory, joined to item, pushed
PushListing(q, item, order) ==
  AfterPop(q) \o [i \in DOMAIN order |-> RelJoin(item, order[i])]

(***************************************************************************)
(* The output directory                                                    *)
(***************************************************************************)
\* a path as the file system sees it: no trailing slash
FsKey(p) == PathResolve(p, <<>>)

\* the directory and every directory above it
RECURSIVE SelfAndAncestors(_)
SelfAndAncestors(dir) ==
  IF dir = <<SLASH>> THEN {dir}
  ELSE {dir} \cup SelfAndAncestors(PathDirname(dir))

EmptyFs == [dirs |-> {}, files |-> <<>>]

FilePaths(fs) == DOMAIN fs.files

\* fs.mkdir(dir, {recursive: true}) fails when a file is in the way
MkdirFails(fs, dir) == \E d \in SelfAndAncestors(FsKey(dir)) : d \in FilePaths(fs)

Mkdir(fs, dir) == [fs EXCEPT !.dirs = @ \cup SelfAndAncestors(FsKey(dir))]

\* fs.writeFile(path, ...) fails on a directory and in a missing directory
WriteFails(fs, path) ==
  \/ path[Len(path)] = SLASH
  \/ FsKey(path) \in fs.dirs
  \/ PathDirname(FsKey(path)) \notin fs.dirs

WriteFile(fs, path, content) ==
  [fs EXCEPT !.files =
     [q \in DOMAIN fs.files \cup {FsKey(path)} |->
        IF q = FsKey(path) THEN content ELSE fs.files[q]]]

\* one write of this run, for the order of writes
WriteEvent(op, path) == [op |-> op, path |-> path]

(***************************************************************************)
(* readAllPosts                                                            *)
(***************************************************************************)
DOT_HTML == <<".", "h", "t", "m", "l">>
DOT_JSON == <<".", "j", "s", "o", "n">>
DOT_HBS == <<".", "h", "b", "s">>

\* a property that was never assigned
UNDEFINED == <<"undefined">>

\* the names every object inherits from Object.prototype, among the names
\* the model draws slugs from
VALUE_OF == <<"v", "a", "l", "u", "e", "O", "f">>
ObjectPrototypeProps == {VALUE_OF}

\* const posts: Record<string, {htmlFile?, jsonFile?}> = {}
EmptyObject == [keys |-> <<>>, val |-> <<>>]

HasOwn(o, k) == \E i \in DOMAIN o.keys : o.keys[i] = k

\* k in o: own and inherited properties
In(o, k) == HasOwn(o, k) \/ k \in ObjectPrototypeProps

\* an integer-like key ("array index"): Object.entries lists these first,
\* in ascending order, whatever the order they were added in
\* (a canonical decimal number below 2^32 - 1; every key of the model is
\* far shorter than ten digits)
IsArrayIndex(k) ==
  /\ k # <<>>
  /\ \A i \in DOMAIN k : IsDigit(k[i])
  /\ (Len(k) > 1 => k[1] # "0")

\* the keys in the order Object.entries lists them
ObjectKeys(o) ==
  LET ints == {o.keys[i] : i \in {j \in DOMAIN o.keys : IsArrayIndex(o.keys[j])}}
      sortedInts == [i \in 1..Cardinality(ints) |->
                       CHOOSE k \in ints :
                         Cardinality({j \in ints : ParseInt(j) < ParseInt(k)}) = i - 1]
  IN sortedInts \o SelectSeq(o.keys, LAMBDA k : ~ IsArrayIndex(k))

\* lines 795-803: [type, slug] of a yielded file
Classify(file) ==
  IF MatchesSuffixCI(file, DOT_HTML)
  THEN [type |-> "htmlFile", slug |-> RemoveSuffixCI(file, DOT_HTML)]
  ELSE IF MatchesSuffixCI(file, DOT_JSON)
  THEN [type |-> "jsonFile", slug |-> RemoveSuffixCI(file, DOT_JSON)]
  ELSE [type |-> "unrecognized", slug |-> file]

\* lines 805-809: if (!(slug in posts)) posts[slug] = {}; posts[slug][type] = file
\* For an inherited name posts[slug] is the inherited object: the property
\* is set on it and posts gets no entry.
PostsAssign(o, slug, type, file) ==
  LET o1 == IF In(o, slug) THEN o
            ELSE [keys |-> Append(o.keys, slug),
                  val |-> [k \in DOMAIN o.val \cup {slug} |->
                             IF k = slug
                             THEN [htmlFile |-> UNDEFINED, jsonFile |-> UNDEFINED]
                             ELSE o.val[k]]]
  IN IF HasOwn(o1, slug) THEN [o1 EXCEPT !.val[slug][type] = file] ELSE o1

\* lines 813-818
slugsWithNoHtml(o) ==
  SelectSeq(ObjectKeys(o), LAMBDA k : o.val[k].htmlFile = UNDEFINED)
slugsWithNoJson(o) ==
  SelectSeq(ObjectKeys(o), LAMBDA k : o.val[k].jsonFile = UNDEFINED)

\* lines 820-835: the lines logged, in order
ValidationLines(o, unrec) ==
  (IF Len(slugsWithNoHtml(o)) > 0
   THEN <<LogLine("error", "No HTML found for posts", "", slugsWithNoHtml(o))>>
   ELSE <<>>)
  \o (IF Len(slugsWithNoJson(o)) > 0
      THEN <<LogLine("error", "No JSON found for posts", "", slugsWithNoJson(o))>>
      ELSE <<>>)
  \o (IF Len(unrec) > 0
      THEN <<LogLine("error", "Unrecognized post files", "", unrec)>>
      ELSE <<>>)

foundMismatches(o, unrec) ==
  Len(slugsWithNoHtml(o)) > 0 \/ Len(slugsWithNoJson(o)) > 0 \/ Len(unrec) > 0

\* lines 858-863: one SitePost; pubDate is metadata.pubDate.valueOf()
SitePost(postDir, slug, entry, pubDate) ==
  [slug |-> slug,
   pathToHtml |-> PathJoin(postDir, entry.htmlFile),
   pathToJson |-> PathJoin(postDir, entry.jsonFile),
   pubDate |-> pubDate]

\* lines 866-869: the comparator, and Array.prototype.sort, which is stable
Compare(postA, postB) == -(postA.pubDate - postB.pubDate)

RECURSIVE InsertPost(_, _)
InsertPost(sorted, x) ==
  IF sorted = <<>> THEN <<x>>
  ELSE IF Compare(x, Head(sorted)) < 0 THEN <<x>> \o sorted
  ELSE <<Head(sorted)>> \o InsertPost(Tail(sorted), x)

RECURSIVE SortPosts(_)
SortPosts(list) ==
  IF list = <<>> THEN <<>>
  ELSE InsertPost(SortPosts(SubSeq(list, 1, Len(list) - 1)), list[Len(list)])

MaxPubDate == 2

\* what main() holds for allPosts: nothing yet, false, or a list
NoPostsYet == [state |-> "none", list |-> <<>>]
PostsFalse == [state |-> "false", list |-> <<>>]
PostsList(list) == [state |-> "list", list |-> list]

(***************************************************************************)
(* main(): the directories, and what is written where                      *)
(***************************************************************************)
outDir == PathJoin(manifestDirAbs, manifest.outputDir)
postDir == PathJoin(manifestDirAbs, manifest.postSettings.postInputDir)
additionalPagesPath == PathJoin(manifestDirAbs, manifest.additionalPageTemplatesDir)

\* the default postOutputFileTemplate, posts/{{post.slug}}/index.html,
\* rendered for a slug
POSTS_SLASH == <<"p", "o", "s", "t", "s", "/">>
SLASH_INDEX_HTML == <<"/", "i", "n", "d", "e", "x", ".", "h", "t", "m", "l">>

\* what Handlebars writes for {{expression}}: the value with the characters
\* & < > ' = replaced by their HTML entities (the double quote and the
\* backquote, replaced too, are in no name used here)
EscapeChar(c) ==
  CASE c = "&" -> <<"&", "a", "m", "p", ";">>
    [] c = "<" -> <<"&", "l", "t", ";">>
    [] c = ">" -> <<"&", "g", "t", ";">>
    [] c = "'" -> <<"&", "#", "x", "2", "7", ";">>
    [] c = "=" -> <<"&", "#", "x", "3", "D", ";">>
    [] OTHER -> <<c>>

RECURSIVE escapeExpression(_)
escapeExpression(s) ==
  IF s = <<>> THEN <<>> ELSE EscapeChar(s[1]) \o escapeExpression(SubSeq(s, 2, Len(s)))

postFilenameTemplate(slug) ==
  POSTS_SLASH \o escapeExpression(slug) \o SLASH_INDEX_HTML

\* what a written file holds: what made it, from what, and for a page the
\* slugs of allPosts as the template saw them
Content(kind, src, scope) == [kind |-> kind, src |-> src, scope |-> scope]

\* formatPostForTemplateScope: the slug, the date and the content read
PostScope(post) ==
  [slug |-> post.slug, pubDate |-> post.pubDate, content |-> post.pathToHtml]

\* line 971 with the suffix removed from the file name only when the file
\* is in the root: a page of a subdirectory keeps .hbs
PageOutFile_RootOnly(dir, file) ==
  IF SlashesOf(file) = {} THEN RemoveSuffixCI(PathJoin(dir, file), DOT_HBS)
  ELSE PathJoin(dir, file)

\* line 971: path.join(outDir, file).replace(PATTERN_HBS_EXT, "")
PageOutFile(dir, file) == RemoveSuffixCI(PathJoin(dir, file), DOT_HBS)

(***************************************************************************)
(* main(), step by step                                                    *)
(***************************************************************************)
\* what no step of a run changes: the site, and what the run before left
mainVars == <<VERSION, manifestDirAbs, manifest, staticTree, postTree,
              partialTree, pageTree, metaJson, runNo, firstRun>>
scanVars == <<queue, posts, unrecognized, discovered, result, idx>>

\* lines 564-566: JSON.parse and schemaSiteManifest.parse throw on a bad file
ReadManifest ==
  /\ pc = "readManifest"
  /\ IF manifest.valid
     THEN /\ manifest' = schemaSiteManifest_parse(manifest)
          /\ pc' = "checkVersion"
     ELSE /\ pc' = "crashed"
          /\ UNCHANGED manifest
  /\ UNCHANGED <<VERSION, manifestDirAbs, staticTree, postTree, partialTree,
                 pageTree, metaJson, runNo, firstRun, scanVars, versionOk, sanityOk,
                 log, outFs, writes,
                 allPosts, partials, allPostsForScope, settled, foundAny>>

\* lines 567-569 and 691-709: parseVersion throws on a malformed version
CheckManifestVersion ==
  /\ pc = "checkVersion"
  /\ IF ~ MatchesPatternVersion(manifest.version)
     THEN /\ pc' = "crashed"
          /\ UNCHANGED <<versionOk, log>>
     ELSE LET ok == checkManifestVersion(VERSION, manifest.version)
          IN /\ versionOk' = Bool(ok)
             /\ log' = IF ok THEN log
                       ELSE Append(log, LogLine("error", "requires Wolfdog version",
                                                "", <<manifest.version, VERSION>>))
             /\ pc' = IF ok THEN "sanity" ELSE "exit1"
  /\ UNCHANGED <<mainVars, scanVars, sanityOk, outFs, writes, allPosts,
                 partials, allPostsForScope, settled, foundAny>>

\* the same without process.exit(1): main goes on after a failed check
ManifestSanityChecks_NoExit ==
  /\ pc = "sanity"
  /\ LET r == manifestSanityChecks(manifestDirAbs, manifest)
     IN /\ sanityOk' = Bool(r.isValid)
        /\ log' = log \o r.lines
        /\ pc' = "mkdirOut"
  /\ UNCHANGED <<mainVars, scanVars, versionOk, outFs, writes, allPosts,
                 partials, allPostsForScope, settled, foundAny>>

\* lines 571-573 and 741-782
ManifestSanityChecks ==
  /\ pc = "sanity"
  /\ LET r == manifestSanityChecks(manifestDirAbs, manifest)
     IN /\ sanityOk' = Bool(r.isValid)
        /\ log' = log \o r.lines
        /\ pc' = IF r.isValid THEN "mkdirOut" ELSE "exit1"
  /\ UNCHANGED <<mainVars, scanVars, versionOk, outFs, writes, allPosts,
                 partials, allPostsForScope, settled, foundAny>>

\* lines 575-577: fs.mkdir(outDir, {recursive: true}); it may throw
MkdirOutDir ==
  /\ pc = "mkdirOut"
  /\ \/ /\ ~ MkdirFails(outFs, outDir)
        /\ outFs' = Mkdir(outFs, outDir)
        /\ writes' = Append(writes, WriteEvent("mkdir", outDir))
        /\ pc' = "copyStatic"
     \/ /\ pc' = "crashed"
        /\ UNCHANGED <<outFs, writes>>
  /\ UNCHANGED <<mainVars, scanVars, versionOk, sanityOk, log, allPosts,
                 partials, allPostsForScope, settled, foundAny>>

\* the static files, copied under dir
CopyInto(fs, dir, tree, files) ==
  [dirs |-> fs.dirs \cup {FsKey(PathJoin(dir, d)) : d \in tree.dirs},
   files |-> [q \in DOMAIN fs.files \cup {FsKey(PathJoin(dir, f)) : f \in files} |->
                IF \E f \in files : FsKey(PathJoin(dir, f)) = q
                THEN Content("static",
                             CHOOSE f \in files : FsKey(PathJoin(dir, f)) = q, <<>>)
                ELSE fs.files[q]]]

\* lines 579-594: fs.cp(staticDir, outDir, {recursive: true}); ENOENT is
\* caught, any other error is thrown again, with part of the files copied
CopyStatic ==
  /\ pc = "copyStatic"
  /\ IF ~ staticTree.exists
     THEN /\ pc' = "readPosts"
          /\ UNCHANGED <<outFs, writes>>
     ELSE \/ /\ outFs' = CopyInto(outFs, outDir, staticTree, staticTree.files)
             /\ writes' = Append(writes, WriteEvent("copy", outDir))
             /\ pc' = "readPosts"
          \/ \E copied \in SUBSET staticTree.files :
               /\ copied # staticTree.files
               /\ outFs' = CopyInto(outFs, outDir, staticTree, copied)
               /\ writes' = IF copied = {} THEN writes
                            ELSE Append(writes, WriteEvent("copy", outDir))
               /\ pc' = "crashed"
  /\ UNCHANGED <<mainVars, scanVars, versionOk, sanityOk, log, allPosts,
                 partials, allPostsForScope, settled, foundAny>>

(***************************************************************************)
(* readAllPosts, step by step (lines 787-872)                              *)
(***************************************************************************)
\* line 791: the first next() of readdirR(postDir)
PostsStart ==
  /\ pc = "readPosts"
  /\ \E order \in Orders(Listing(postTree, ROOT)) :
       queue' = ReaddirRStart(postTree, order)
  /\ posts' = EmptyObject
  /\ unrecognized' = <<>>
  /\ discovered' = <<>>
  /\ pc' = "postsScan"
  /\ UNCHANGED <<mainVars, versionOk, sanityOk, log, outFs, writes, result,
                 allPosts, idx, partials, allPostsForScope, settled, foundAny>>

\* readdirR pops a directory
PostsScanDir ==
  /\ pc = "postsScan"
  /\ queue # <<>>
  /\ IsDirectory(postTree, Popped(queue))
  /\ \E order \in Orders(Listing(postTree, Popped(queue))) :
       queue' = PushListing(queue, Popped(queue), order)
  /\ UNCHANGED <<mainVars, pc, versionOk, sanityOk, log, outFs, writes, posts,
                 unrecognized, discovered, result, allPosts, idx, partials,
                 allPostsForScope, settled, foundAny>>

\* readdirR pops and yields a file; the body of the loop, lines 792-809
PostsScanFile ==
  /\ pc = "postsScan"
  /\ queue # <<>>
  /\ ~ IsDirectory(postTree, Popped(queue))
  /\ LET file == Popped(queue)
         c == Classify(file)
     IN /\ queue' = AfterPop(queue)
        /\ discovered' = Append(discovered, file)
        /\ IF c.type = "unrecognized"
           THEN /\ unrecognized' = Append(unrecognized, file)
                /\ UNCHANGED posts
           ELSE /\ posts' = PostsAssign(posts, c.slug, c.type, file)
                /\ UNCHANGED unrecognized
  /\ UNCHANGED <<mainVars, pc, versionOk, sanityOk, log, outFs, writes, result,
                 allPosts, idx, partials, allPostsForScope, settled, foundAny>>

\* lines 812-840, and main's lines 599-601
PostsValidate ==
  /\ pc = "postsScan"
  /\ queue = <<>>
  /\ log' = log \o ValidationLines(posts, unrecognized)
  /\ IF foundMismatches(posts, unrecognized)
     THEN /\ allPosts' = PostsFalse
          /\ pc' = "exit1"
          /\ UNCHANGED <<result, idx>>
     ELSE /\ result' = <<>>
          /\ idx' = 1
          /\ pc' = "postsParse"
          /\ UNCHANGED allPosts
  /\ UNCHANGED <<mainVars, versionOk, sanityOk, outFs, writes, queue, posts,
                 unrecognized, discovered, partials, allPostsForScope, settled, foundAny>>

(***************************************************************************)
(* schemaPostMetadata (types.ts lines 123-148): the content of a metadata  *)
(* file, each property given by the kind of JSON value it holds            *)
(***************************************************************************)
\* the kinds of JSON value of a property; "absent" when the key is missing
JsonKinds == {"absent", "string", "number", "true", "false", "null", "object"}

\* the kinds of value of pubDate: the strings are told apart by what
\* z.iso.datetime({ offset: true }) and luxon make of them
\*   isoZ       2020-01-20T00:00:00Z
\*   isoOffset  2020-01-20T00:00:00-07:00
\*   isoLocal   2020-01-20T00:00:00      (no offset: local is not allowed)
\*   isoNoDay   2020-02-30T00:00:00Z     (no such day)
\*   text       any other string
PubDateKinds == {"absent", "isoZ", "isoOffset", "isoLocal", "isoNoDay", "text",
                 "number", "false", "null"}

\* what JSON.parse gave: isObject is FALSE when the file is no JSON or no
\* JSON object; otherKey tells that a key outside the four of the schema
\* and other than showPubDate is present
Metadata(isObject, schemaKey, title, pubDate, showPubDate, additionalValues, otherKey) ==
  [isObject |-> isObject, schemaKey |-> schemaKey, title |-> title,
   pubDate |-> pubDate, showPubDate |-> showPubDate,
   additionalValuesInTemplateScope |-> additionalValues, otherKey |-> otherKey]

\* lines 118-121 and 135-140: the string is an ISO datetime with Z or an
\* offset, and the DateTime luxon makes of it is valid
PubDateAccepted(kind) == kind \in {"isoZ", "isoOffset"}

\* lines 123-148: z.strictObject throws on a key it does not declare
UnrecognizedKeys(m) ==
  (IF m.showPubDate # "absent" THEN {"showPubDate"} ELSE {})
    \cup (IF m.otherKey THEN {"other"} ELSE {})

\* the schema of the versions before: showPubDate declared, a string or false
schemaPostMetadata_ShowPubDate(m) ==
  /\ m.isObject
  /\ m.schemaKey \in {"absent", "string"}
  /\ m.title = "string"
  /\ PubDateAccepted(m.pubDate)
  /\ m.showPubDate \in {"string", "false"}
  /\ ~ m.otherKey

\* whether schemaPostMetadata.parse returns (TRUE) or throws (FALSE)
schemaPostMetadata(m) ==
  /\ m.isObject
  /\ m.schemaKey \in {"absent", "string"}
  /\ m.title = "string"
  /\ PubDateAccepted(m.pubDate)
  /\ UnrecognizedKeys(m) = {}

\* the metadata files of a post directory
MetadataFiles(tree) == {f \in tree.files : Classify(f).type = "jsonFile"}

\* the pubDate the metadata file of the post gave in the first run
FirstRunPubDates(slug) ==
  {firstRun.posts[i].pubDate :
     i \in {k \in DOMAIN firstRun.posts : firstRun.posts[k].slug = slug}}

\* lines 843-864: the metadata of one entry parses, with some pubDate; the
\* file has not changed since the first run
PostsParseOk ==
  /\ pc = "postsParse"
  /\ idx <= Len(ObjectKeys(posts))
  /\ \E pubDate \in 1..MaxPubDate :
       LET slug == ObjectKeys(posts)[idx]
       IN /\ schemaPostMetadata(metaJson[posts.val[slug].jsonFile])
          /\ runNo = 2 => pubDate \in FirstRunPubDates(slug)
          /\ result' = Append(result, SitePost(postDir, slug, posts.val[slug], pubDate))
  /\ idx' = idx + 1
  /\ UNCHANGED <<mainVars, pc, versionOk, sanityOk, log, outFs, writes, queue,
                 posts, unrecognized, discovered, allPosts, partials,
                 allPostsForScope, settled, foundAny>>

\* the same with the error caught and the post left out
PostsParseThrows_Swallowed ==
  /\ pc = "postsParse"
  /\ idx <= Len(ObjectKeys(posts))
  /\ LET slug == ObjectKeys(posts)[idx]
     IN log' = Append(log, LogLine("error", "Error reading metadata for post", "",
                                   <<posts.val[slug].jsonFile>>))
  /\ idx' = idx + 1
  /\ UNCHANGED <<mainVars, pc, versionOk, sanityOk, outFs, writes, queue, posts,
                 unrecognized, discovered, result, allPosts, partials,
                 allPostsForScope, settled, foundAny>>

\* lines 849-856: the metadata of one entry does not parse
PostsParseThrows ==
  /\ pc = "postsParse"
  /\ runNo = 1
  /\ idx <= Len(ObjectKeys(posts))
  /\ ~ schemaPostMetadata(metaJson[posts.val[ObjectKeys(posts)[idx]].jsonFile])
  /\ LET slug == ObjectKeys(posts)[idx]
     IN log' = Append(log, LogLine("error", "Error reading metadata for post", "",
                                   <<posts.val[slug].jsonFile>>))
  /\ pc' = "crashed"
  /\ UNCHANGED <<mainVars, versionOk, sanityOk, outFs, writes, scanVars,
                 allPosts, partials, allPostsForScope, settled, foundAny>>

\* the same with main going on to the post template, no partial registered
PostsReturn_ToPostRender ==
  /\ pc = "postsParse"
  /\ idx > Len(ObjectKeys(posts))
  /\ allPosts' = PostsList(SortPosts(result))
  /\ pc' = "compilePostTemplate"
  /\ UNCHANGED <<mainVars, versionOk, sanityOk, log, outFs, writes, scanVars,
                 partials, allPostsForScope, settled, foundAny>>

\* lines 866-871: sort and return
PostsReturn ==
  /\ pc = "postsParse"
  /\ idx > Len(ObjectKeys(posts))
  /\ allPosts' = PostsList(SortPosts(result))
  /\ pc' = "partials"
  /\ UNCHANGED <<mainVars, versionOk, sanityOk, log, outFs, writes, scanVars,
                 partials, allPostsForScope, settled, foundAny>>

(***************************************************************************)
(* readPartialTemplates, step by step (lines 874-892)                      *)
(***************************************************************************)
PartialsStart ==
  /\ pc = "partials"
  /\ IF ~ fileExists(partialTree)
     THEN /\ pc' = "compilePostTemplate"
          /\ UNCHANGED queue
     ELSE /\ \E order \in Orders(Listing(partialTree, ROOT)) :
               queue' = ReaddirRStart(partialTree, order)
          /\ pc' = "partialsScan"
  /\ UNCHANGED <<mainVars, versionOk, sanityOk, log, outFs, writes, posts,
                 unrecognized, discovered, result, allPosts, idx, partials,
                 allPostsForScope, settled, foundAny>>

PartialsScanDir ==
  /\ pc = "partialsScan"
  /\ queue # <<>>
  /\ IsDirectory(partialTree, Popped(queue))
  /\ \E order \in Orders(Listing(partialTree, Popped(queue))) :
       queue' = PushListing(queue, Popped(queue), order)
  /\ UNCHANGED <<mainVars, pc, versionOk, sanityOk, log, outFs, writes, posts,
                 unrecognized, discovered, result, allPosts, idx, partials,
                 allPostsForScope, settled, foundAny>>

\* lines 884-887: the file is read and registered under its relative path;
\* the read may throw
PartialsScanFile ==
  /\ pc = "partialsScan"
  /\ queue # <<>>
  /\ ~ IsDirectory(partialTree, Popped(queue))
  /\ queue' = AfterPop(queue)
  /\ \/ /\ partials' = partials \cup {Popped(queue)}
        /\ UNCHANGED pc
     \/ /\ pc' = "crashed"
        /\ UNCHANGED partials
  /\ UNCHANGED <<mainVars, versionOk, sanityOk, log, outFs, writes, posts,
                 unrecognized, discovered, result, allPosts, idx,
                 allPostsForScope, settled, foundAny>>

\* the same returning while files are still on the stack
PartialsDone_Early ==
  /\ pc = "partialsScan"
  /\ pc' = "compilePostTemplate"
  /\ UNCHANGED <<mainVars, versionOk, sanityOk, log, outFs, writes, scanVars,
                 allPosts, partials, allPostsForScope, settled, foundAny>>

PartialsDone ==
  /\ pc = "partialsScan"
  /\ queue = <<>>
  /\ pc' = "compilePostTemplate"
  /\ UNCHANGED <<mainVars, versionOk, sanityOk, log, outFs, writes, scanVars,
                 allPosts, partials, allPostsForScope, settled, foundAny>>

(***************************************************************************)
(* templateAndWriteAllPosts, step by step (lines 911-941)                  *)
(***************************************************************************)
\* lines 919-922: the post template is read and both templates compiled
CompilePostTemplate ==
  /\ pc = "compilePostTemplate"
  /\ \/ /\ pc' = "writePosts"
        /\ idx' = 1
     \/ /\ pc' = "crashed"
        /\ UNCHANGED idx
  /\ UNCHANGED <<mainVars, versionOk, sanityOk, log, outFs, writes, queue,
                 posts, unrecognized, discovered, result, allPosts, partials,
                 allPostsForScope, settled, foundAny>>

\* lines 925-935 for one post, nothing throwing
WritePostOk ==
  /\ pc = "writePosts"
  /\ idx <= Len(allPosts.list)
  /\ LET post == allPosts.list[idx]
         outFile == PathJoin(outDir, postFilenameTemplate(post.slug))
     IN /\ ~ MkdirFails(outFs, PathDirname(outFile))
        /\ ~ WriteFails(Mkdir(outFs, PathDirname(outFile)), outFile)
        /\ outFs' = WriteFile(Mkdir(outFs, PathDirname(outFile)), outFile,
                              Content("post", post.slug, <<>>))
        /\ writes' = Append(writes, WriteEvent("writePost", outFile))
  /\ idx' = idx + 1
  /\ UNCHANGED <<mainVars, pc, versionOk, sanityOk, log, queue, posts,
                 unrecognized, discovered, result, allPosts, partials,
                 allPostsForScope, settled, foundAny>>

\* the same with the error caught and the loop going on to the next post
WritePostThrows_Skipped ==
  /\ pc = "writePosts"
  /\ idx <= Len(allPosts.list)
  /\ log' = Append(log, LogLine("error", "Error processing post", "",
                                <<allPosts.list[idx].slug>>))
  /\ idx' = idx + 1
  /\ UNCHANGED <<mainVars, pc, versionOk, sanityOk, outFs, writes, queue, posts,
                 unrecognized, discovered, result, allPosts, partials,
                 allPostsForScope, settled, foundAny>>

\* lines 936-939: the read, a render, mkdir or writeFile throws
WritePostThrows ==
  /\ pc = "writePosts"
  /\ idx <= Len(allPosts.list)
  /\ LET post == allPosts.list[idx]
         outFile == PathJoin(outDir, postFilenameTemplate(post.slug))
     IN /\ log' = Append(log, LogLine("error", "Error processing post", "",
                                      <<post.slug>>))
        /\ \/ UNCHANGED outFs
           \/ /\ ~ MkdirFails(outFs, PathDirname(outFile))
              /\ outFs' = Mkdir(outFs, PathDirname(outFile))
  /\ pc' = "crashed"
  /\ UNCHANGED <<mainVars, versionOk, sanityOk, writes, scanVars, allPosts,
                 partials, allPostsForScope, settled, foundAny>>

WritePostsDone ==
  /\ pc = "writePosts"
  /\ idx > Len(allPosts.list)
  /\ pc' = "pagesStart"
  /\ UNCHANGED <<mainVars, versionOk, sanityOk, log, outFs, writes, scanVars,
                 allPosts, partials, allPostsForScope, settled, foundAny>>

(***************************************************************************)
(* templateAndWriteAdditionalPages, step by step (lines 945-992)           *)
(***************************************************************************)
\* the posts whose formatPostForTemplateScope promise is not settled
Pending == DOMAIN allPosts.list \ {settled[k] : k \in DOMAIN settled}

\* Promise.all with the values in the order the promises were fulfilled
PromiseAllResolve_CompletionOrder(values, index, value) ==
  LET n == Cardinality(DOMAIN values) + 1
  IN [j \in 1..n |-> IF j = n THEN value ELSE values[j]]

\* Promise.all: the value of a fulfilled promise is stored at the index of
\* the promise in the array it was given
PromiseAllResolve(values, index, value) ==
  [j \in DOMAIN values \cup {index} |-> IF j = index THEN value ELSE values[j]]

\* lines 952-958: a missing directory returns false; else allPosts.map
\* starts formatPostForTemplateScope for every post, none awaited yet
PagesStart ==
  /\ pc = "pagesStart"
  /\ IF ~ fileExists(pageTree)
     THEN pc' = "done"
     ELSE pc' = "pagesScopes"
  /\ UNCHANGED <<mainVars, versionOk, sanityOk, log, outFs, writes, scanVars,
                 allPosts, partials, allPostsForScope, settled, foundAny>>

\* lines 894-909: the readFile of one post returns, whichever post it is
PagesScopeResolves ==
  /\ pc = "pagesScopes"
  /\ \E i \in Pending :
       /\ allPostsForScope' =
            PromiseAllResolve(allPostsForScope, i, PostScope(allPosts.list[i]))
       /\ settled' = Append(settled, i)
  /\ UNCHANGED <<mainVars, pc, versionOk, sanityOk, log, outFs, writes, scanVars,
                 allPosts, partials, foundAny>>

\* the readFile of one post throws: Promise.all rejects, nothing catches
PagesScopeRejects ==
  /\ pc = "pagesScopes"
  /\ Pending # {}
  /\ pc' = "crashed"
  /\ UNCHANGED <<mainVars, versionOk, sanityOk, log, outFs, writes, scanVars,
                 allPosts, partials, allPostsForScope, settled, foundAny>>

\* lines 956-962: every promise is fulfilled, the await returns and the
\* walk starts
PagesWalkStart ==
  /\ pc = "pagesScopes"
  /\ Pending = {}
  /\ foundAny' = FALSE
  /\ \E order \in Orders(Listing(pageTree, ROOT)) :
       queue' = ReaddirRStart(pageTree, order)
  /\ pc' = "pagesScan"
  /\ UNCHANGED <<mainVars, versionOk, sanityOk, log, outFs, writes, posts,
                 unrecognized, discovered, result, allPosts, idx, partials,
                 allPostsForScope, settled>>

PagesScanDir ==
  /\ pc = "pagesScan"
  /\ queue # <<>>
  /\ IsDirectory(pageTree, Popped(queue))
  /\ \E order \in Orders(Listing(pageTree, Popped(queue))) :
       queue' = PushListing(queue, Popped(queue), order)
  /\ UNCHANGED <<mainVars, pc, versionOk, sanityOk, log, outFs, writes, posts,
                 unrecognized, discovered, result, allPosts, idx, partials,
                 allPostsForScope, settled, foundAny>>

\* lines 963-969: a file whose path does not end in .hbs
PagesIgnoreFile ==
  /\ pc = "pagesScan"
  /\ queue # <<>>
  /\ ~ IsDirectory(pageTree, Popped(queue))
  /\ LET fileAbs == PathJoin(additionalPagesPath, Popped(queue))
     IN /\ ~ MatchesSuffixCI(fileAbs, DOT_HBS)
        /\ log' = Append(log, LogLine("warn", "Ignoring page", "", <<fileAbs>>))
  /\ queue' = AfterPop(queue)
  /\ UNCHANGED <<mainVars, pc, versionOk, sanityOk, outFs, writes, posts,
                 unrecognized, discovered, result, allPosts, idx, partials,
                 allPostsForScope, settled, foundAny>>

\* lines 971-984 for one template, nothing throwing
PagesRenderOk ==
  /\ pc = "pagesScan"
  /\ queue # <<>>
  /\ ~ IsDirectory(pageTree, Popped(queue))
  /\ LET file == Popped(queue)
         fileAbs == PathJoin(additionalPagesPath, file)
         outFile == PageOutFile(outDir, file)
     IN /\ MatchesSuffixCI(fileAbs, DOT_HBS)
        /\ ~ MkdirFails(outFs, PathDirname(outFile))
        /\ ~ WriteFails(Mkdir(outFs, PathDirname(outFile)), outFile)
        /\ outFs' = WriteFile(Mkdir(outFs, PathDirname(outFile)), outFile,
                              Content("page", file,
                                      [i \in DOMAIN allPostsForScope |->
                                         allPostsForScope[i].slug]))
        /\ writes' = Append(writes, WriteEvent("writePage", outFile))
  /\ foundAny' = TRUE
  /\ queue' = AfterPop(queue)
  /\ UNCHANGED <<mainVars, pc, versionOk, sanityOk, log, posts, unrecognized,
                 discovered, result, allPosts, idx, partials, allPostsForScope, settled>>

\* lines 985-988: the read, the compile, the render, mkdir or writeFile throws
PagesRenderThrows ==
  /\ pc = "pagesScan"
  /\ queue # <<>>
  /\ ~ IsDirectory(pageTree, Popped(queue))
  /\ LET file == Popped(queue)
         fileAbs == PathJoin(additionalPagesPath, file)
         outFile == PageOutFile(outDir, file)
     IN /\ MatchesSuffixCI(fileAbs, DOT_HBS)
        /\ log' = Append(log, LogLine("error", "Error processing page", "",
                                      <<fileAbs>>))
        /\ \/ UNCHANGED outFs
           \/ /\ ~ MkdirFails(outFs, PathDirname(outFile))
              /\ outFs' = Mkdir(outFs, PathDirname(outFile))
  /\ queue' = AfterPop(queue)
  /\ pc' = "crashed"
  /\ UNCHANGED <<mainVars, versionOk, sanityOk, writes, posts, unrecognized,
                 discovered, result, allPosts, idx, partials, allPostsForScope, settled,
                 foundAny>>

\* line 991 and main's lines 637-642
PagesDone ==
  /\ pc = "pagesScan"
  /\ queue = <<>>
  /\ pc' = "done"
  /\ UNCHANGED <<mainVars, versionOk, sanityOk, log, outFs, writes, scanVars,
                 allPosts, partials, allPostsForScope, settled, foundAny>>

\* wolfdog build is run once more on the site: a new process, the output
\* directory as the first run left it
RunAgain ==
  /\ pc = "done"
  /\ runNo = 1
  /\ runNo' = 2
  /\ firstRun' = [out |-> outFs, posts |-> allPosts.list]
  /\ pc' = "readManifest"
  /\ versionOk' = NONE
  /\ sanityOk' = NONE
  /\ log' = <<>>
  /\ writes' = <<>>
  /\ queue' = <<>>
  /\ posts' = EmptyObject
  /\ unrecognized' = <<>>
  /\ discovered' = <<>>
  /\ result' = <<>>
  /\ idx' = 1
  /\ allPosts' = NoPostsYet
  /\ partials' = {}
  /\ allPostsForScope' = <<>>
  /\ settled' = <<>>
  /\ foundAny' = FALSE
  /\ UNCHANGED <<VERSION, manifestDirAbs, manifest, staticTree, postTree,
                 partialTree, pageTree, metaJson, outFs>>

(***************************************************************************)
(* The inputs the runs are drawn from                                      *)
(***************************************************************************)
\* site directories: /p, and the file system root
BASE_P == <<"/", "p">>
BASE_ROOT == <<"/">>

V_1_0_0 == <<"1", ".", "0", ".", "0">>

DefaultManifest(ver) ==
  Manifest(ver, DEFAULT_outputDir, DEFAULT_staticAssetsInputDir,
           DEFAULT_partialTemplatesDir, DEFAULT_additionalPageTemplatesDir,
           DEFAULT_postInputDir, DEFAULT_postTemplate)

\* version strings: every string of at most MaxVersionLen of these characters
MaxVersionLen == 6
VersionChars == {"0", "1", DOT}
VersionStrings == UNION {[1..k -> VersionChars] : k \in 1..MaxVersionLen}

\* versions of the generator
GenVersions ==
  {V_1_0_0, <<"1", ".", "1", ".", "0">>, <<"1", ".", "1", ".", "1">>, <<"0", ".", "1", ".", "1">>, <<"1", "0", ".", "1", ".", "0">>, <<"1", ".", "1", "0", ".", "1">>}

\* manifest paths for the path checks, by field: inside the project, the
\* output directory and below it, beside it with its name as a prefix,
\* above the project, absolute, and the project directory itself
OutputDirChoices ==
  {<<"d", "/">>, <<".", ".", "/", "o">>, <<".">>, <<"s", "/", ".", ".", "/", "d">>}
PostInputDirChoices ==
  {<<"p">>, <<".", ".", "/", "o", "u", "t", "s", "i", "d", "e">>, <<"d", "/", "r">>}
PostTemplateChoices ==
  {<<"t">>, <<"d">>, <<"/", "e">>}
StaticDirChoices ==
  {<<"s">>, <<"d", "-", "a", "s", "s", "e", "t", "s">>, <<"d", "/", "r", "a", "w">>, <<".", ".", "/", "p", "x">>}
PartialsDirChoices ==
  {<<"q">>, <<"d", "x">>, <<".", ".", "/", "o">>}
PagesDirChoices ==
  {<<"a">>, <<"d", "/", "r">>, <<>>}

GuardManifests ==
  {Manifest(V_1_0_0, o, st, pt, pg, pin, tpl) :
     o \in OutputDirChoices, st \in StaticDirChoices, pt \in PartialsDirChoices,
     pg \in PagesDirChoices, pin \in PostInputDirChoices,
     tpl \in PostTemplateChoices}

\* post directories: every set of at most MaxPostFiles of these files, and
\* every set of complete pairs
F_a_html == <<"a", ".", "h", "t", "m", "l">>
F_a_json == <<"a", ".", "j", "s", "o", "n">>
F_b_html == <<"b", ".", "h", "t", "m", "l">>
F_b_json == <<"b", ".", "j", "s", "o", "n">>
F_1_html == <<"1", ".", "h", "t", "m", "l">>
F_1_json == <<"1", ".", "j", "s", "o", "n">>
F_a_HTML == <<"a", ".", "H", "T", "M", "L">>
F_n_txt == <<"n", ".", "t", "x", "t">>
F_s_a_json == <<"s", "/", "a", ".", "j", "s", "o", "n">>
F_s_a_html == <<"s", "/", "a", ".", "h", "t", "m", "l">>
F_valueOf_html == <<"v", "a", "l", "u", "e", "O", "f", ".", "h", "t", "m", "l">>
F_valueOf_json == <<"v", "a", "l", "u", "e", "O", "f", ".", "j", "s", "o", "n">>
F_amp_html == <<"a", "&", "b", ".", "h", "t", "m", "l">>
F_amp_json == <<"a", "&", "b", ".", "j", "s", "o", "n">>

MaxPostFiles == 3
PostFileUniverse ==
  {F_a_html, F_a_json, F_b_html, F_b_json, F_1_html, F_1_json, F_a_HTML,
   F_n_txt, F_s_a_json, F_s_a_html, F_valueOf_html}
PostPairs == {{F_a_html, F_a_json}, {F_b_html, F_b_json}, {F_1_html, F_1_json}}

PostTrees ==
  {Tree(F, {}) : F \in {G \in SUBSET PostFileUniverse : Cardinality(G) <= MaxPostFiles}}
    \cup {Tree(UNION S, {}) : S \in SUBSET PostPairs}
    \cup {NoDir}

\* additional page directories: every set of at most MaxPageFiles of these
MaxPageFiles == 3
PageFileUniverse ==
  {<<"i", ".", "h", "b", "s">>, <<"x", "/", "i", ".", "h", "b", "s">>, <<"x", "/", "j", ".", "H", "B", "S">>, <<"c", ".", "t", "x", "t">>, <<"x", "/", "c", ".", "t", "x", "t">>, <<"y", ".", "h", "b", "s", "/", "k", ".", "h", "b", "s">>, <<"x", ".", "h", "b", "s">>, <<"i">>}
PageTrees ==
  {Tree(F, {}) : F \in {G \in SUBSET PageFileUniverse : Cardinality(G) <= MaxPageFiles}}
    \cup {NoDir}

\* the JSON of manifests: every optional key absent or present
AbsentPubDate == [present |-> FALSE, formatString |-> ABSENT, locale |-> ABSENT]
RawPubDates ==
  {AbsentPubDate}
    \cup {[present |-> TRUE, formatString |-> f, locale |-> l] :
            f \in {ABSENT, <<"f">>}, l \in {ABSENT, <<"l">>}}
AbsentPostSettings ==
  [present |-> FALSE, postInputDir |-> ABSENT, postOutputFileTemplate |-> ABSENT,
   postTemplate |-> ABSENT, postPubDate |-> AbsentPubDate]
RawPostSettings ==
  {AbsentPostSettings}
    \cup {[present |-> TRUE, postInputDir |-> pin, postOutputFileTemplate |-> po,
           postTemplate |-> tpl, postPubDate |-> d] :
            pin \in {ABSENT, <<"p">>}, po \in {ABSENT, <<"x">>},
            tpl \in {ABSENT, <<"t">>}, d \in RawPubDates}
VersionOnlyManifest(ver) ==
  [valid |-> TRUE, version |-> ver, outputDir |-> ABSENT,
   staticAssetsInputDir |-> ABSENT, partialTemplatesDir |-> ABSENT,
   additionalPageTemplatesDir |-> ABSENT, postSettings |-> AbsentPostSettings]
RawManifests ==
  {[valid |-> TRUE, version |-> V_1_0_0, outputDir |-> o,
    staticAssetsInputDir |-> st, partialTemplatesDir |-> pt,
    additionalPageTemplatesDir |-> pg, postSettings |-> ps] :
     o \in {ABSENT, <<"o">>}, st \in {ABSENT, <<"s">>}, pt \in {ABSENT, <<"q">>},
     pg \in {ABSENT, <<"a">>}, ps \in RawPostSettings}
    \cup {[VersionOnlyManifest(V_1_0_0) EXCEPT !.valid = FALSE]}

\* the inputs of whole runs
MainManifests ==
  {VersionOnlyManifest(V_1_0_0),
   DefaultManifest(V_1_0_0),
   DefaultManifest(<<"2", ".", "0", ".", "0">>),
   DefaultManifest(<<"1", ".", "x">>),
   [DefaultManifest(V_1_0_0) EXCEPT !.valid = FALSE],
   [DefaultManifest(V_1_0_0) EXCEPT !.postSettings.postInputDir = <<".", ".", "/", "o", "u", "t", "s", "i", "d", "e">>]}
MainStaticTrees == {NoDir, Tree({<<"c", ".", "c", "s", "s">>}, {})}
MainPostTrees ==
  {NoDir, Tree({F_a_html}, {}), Tree({F_a_html, F_n_txt}, {}),
   Tree({F_s_a_html, F_s_a_json}, {}),
   Tree({F_a_html, F_a_json, F_b_html, F_b_json}, {}),
   Tree({F_amp_html, F_amp_json}, {}),
   Tree({F_valueOf_html, F_valueOf_json}, {})}
MainPartialTrees == {NoDir, Tree({<<"u", "/", "h", ".", "h", "b", "s">>}, {})}
MainPageTrees == {NoDir, Tree({<<"x", "/", "i", ".", "h", "b", "s">>, <<"c", ".", "t", "x", "t">>}, {})}

(***************************************************************************)
(* Specifications                                                          *)
(***************************************************************************)
\* nothing has run
Idle ==
  /\ log = <<>>
  /\ queue = <<>>
  /\ posts = EmptyObject
  /\ unrecognized = <<>>
  /\ discovered = <<>>
  /\ result = <<>>
  /\ idx = 1
  /\ partials = {}
  /\ allPostsForScope = <<>>
  /\ settled = <<>>
  /\ foundAny = FALSE
  /\ runNo = 1
  /\ firstRun = [out |-> EmptyFs, posts |-> <<>>]

\* a metadata file the schema accepts, and one without a title
ValidMetadata ==
  Metadata(TRUE, "absent", "string", "isoOffset", "absent", "absent", FALSE)
NoTitleMetadata ==
  Metadata(TRUE, "absent", "absent", "isoOffset", "absent", "absent", FALSE)
MainMetadata == {ValidMetadata, NoTitleMetadata}

\* every metadata file of the post directory has a content
MetadataContents(tree, contents) == [MetadataFiles(tree) -> contents]

\* the guards have passed and the output directory was made
AfterMkdir ==
  /\ versionOk = "true"
  /\ sanityOk = "true"
  /\ outFs = Mkdir(EmptyFs, outDir)
  /\ writes = <<WriteEvent("mkdir", outDir)>>

\* a whole run of main()
Init ==
  /\ pc = "readManifest"
  /\ VERSION = V_1_0_0
  /\ manifestDirAbs = BASE_P
  /\ manifest \in MainManifests
  /\ staticTree \in MainStaticTrees
  /\ postTree \in MainPostTrees
  /\ partialTree \in MainPartialTrees
  /\ pageTree \in MainPageTrees
  /\ versionOk = NONE
  /\ sanityOk = NONE
  /\ outFs = EmptyFs
  /\ writes = <<>>
  /\ allPosts = NoPostsYet
  /\ metaJson \in MetadataContents(postTree, MainMetadata)
  /\ Idle

Next ==
  \/ ReadManifest
  \/ CheckManifestVersion
  \/ ManifestSanityChecks
  \/ MkdirOutDir
  \/ CopyStatic
  \/ PostsStart
  \/ PostsScanDir
  \/ PostsScanFile
  \/ PostsValidate
  \/ PostsParseOk
  \/ PostsParseThrows
  \/ PostsReturn
  \/ PartialsStart
  \/ PartialsScanDir
  \/ PartialsScanFile
  \/ PartialsDone
  \/ CompilePostTemplate
  \/ WritePostOk
  \/ WritePostThrows
  \/ WritePostsDone
  \/ PagesStart
  \/ PagesScopeResolves
  \/ PagesScopeRejects
  \/ PagesWalkStart
  \/ PagesScanDir
  \/ PagesIgnoreFile
  \/ PagesRenderOk
  \/ PagesRenderThrows
  \/ PagesDone

Spec == Init /\ [][Next]_vars

\* checkManifestVersion on every pair of versions
InitVersion ==
  /\ pc = "checkVersion"
  /\ VERSION \in GenVersions
  /\ manifestDirAbs = BASE_P
  /\ manifest \in {DefaultManifest(v) : v \in VersionStrings}
  /\ staticTree = NoDir
  /\ postTree = NoDir
  /\ partialTree = NoDir
  /\ pageTree = NoDir
  /\ versionOk = NONE
  /\ sanityOk = NONE
  /\ outFs = EmptyFs
  /\ writes = <<>>
  /\ allPosts = NoPostsYet
  /\ metaJson \in MetadataContents(postTree, MainMetadata)
  /\ Idle

NextVersion == CheckManifestVersion

SpecVersion == InitVersion /\ [][NextVersion]_vars

\* manifestSanityChecks on every manifest of GuardManifests
InitGuard ==
  /\ pc = "sanity"
  /\ VERSION = V_1_0_0
  /\ manifestDirAbs \in {BASE_P, BASE_ROOT}
  /\ manifest \in GuardManifests
  /\ staticTree = NoDir
  /\ postTree = NoDir
  /\ partialTree = NoDir
  /\ pageTree = NoDir
  /\ versionOk = "true"
  /\ sanityOk = NONE
  /\ outFs = EmptyFs
  /\ writes = <<>>
  /\ allPosts = NoPostsYet
  /\ metaJson \in MetadataContents(postTree, MainMetadata)
  /\ Idle

NextGuard == ManifestSanityChecks

SpecGuard == InitGuard /\ [][NextGuard]_vars

\* readAllPosts on every post directory of PostTrees
InitPosts ==
  /\ pc = "readPosts"
  /\ VERSION = V_1_0_0
  /\ manifestDirAbs = BASE_P
  /\ manifest = DefaultManifest(V_1_0_0)
  /\ staticTree = NoDir
  /\ postTree \in PostTrees
  /\ partialTree = NoDir
  /\ pageTree = NoDir
  /\ AfterMkdir
  /\ allPosts = NoPostsYet
  /\ metaJson \in MetadataContents(postTree, MainMetadata)
  /\ Idle

NextPosts ==
  \/ PostsStart
  \/ PostsScanDir
  \/ PostsScanFile
  \/ PostsValidate
  \/ PostsParseOk
  \/ PostsParseThrows
  \/ PostsReturn

SpecPosts == InitPosts /\ [][NextPosts]_vars

\* readAllPosts on one post whose metadata file holds any of these contents
AllMetadata ==
  {Metadata(TRUE, schemaKey, title, pubDate, showPubDate, additionalValues, otherKey) :
     schemaKey \in {"absent", "string", "number"},
     title \in {"absent", "string", "number"},
     pubDate \in PubDateKinds,
     showPubDate \in JsonKinds \ {"object"},
     additionalValues \in {"absent", "object"},
     otherKey \in BOOLEAN}
    \cup {Metadata(FALSE, "absent", "absent", "absent", "absent", "absent", FALSE)}

InitMetadata ==
  /\ pc = "readPosts"
  /\ VERSION = V_1_0_0
  /\ manifestDirAbs = BASE_P
  /\ manifest = DefaultManifest(V_1_0_0)
  /\ staticTree = NoDir
  /\ postTree = Tree({F_a_html, F_a_json}, {})
  /\ partialTree = NoDir
  /\ pageTree = NoDir
  /\ AfterMkdir
  /\ allPosts = NoPostsYet
  /\ metaJson \in MetadataContents(postTree, AllMetadata)
  /\ Idle

NextMetadata ==
  \/ PostsStart
  \/ PostsScanFile
  \/ PostsValidate
  \/ PostsParseOk
  \/ PostsParseThrows
  \/ PostsReturn

SpecMetadata == InitMetadata /\ [][NextMetadata]_vars

\* templateAndWriteAdditionalPages on every page directory of PageTrees,
\* after a run that found three posts, the first the newest
PagesPost == SitePost(PathJoin(BASE_P, DEFAULT_postInputDir), <<"a">>,
                      [htmlFile |-> F_a_html, jsonFile |-> F_a_json], MaxPubDate)

\* two more posts of one date, older than the first
PagesPostB == SitePost(PathJoin(BASE_P, DEFAULT_postInputDir), <<"b">>,
                       [htmlFile |-> F_b_html, jsonFile |-> F_b_json], 1)
PagesPost1 == SitePost(PathJoin(BASE_P, DEFAULT_postInputDir), <<"1">>,
                       [htmlFile |-> F_1_html, jsonFile |-> F_1_json], 1)

InitPages ==
  /\ pc = "pagesStart"
  /\ VERSION = V_1_0_0
  /\ manifestDirAbs = BASE_P
  /\ manifest = DefaultManifest(V_1_0_0)
  /\ staticTree = NoDir
  /\ postTree = Tree({F_a_html, F_a_json, F_b_html, F_b_json, F_1_html, F_1_json}, {})
  /\ partialTree = NoDir
  /\ pageTree \in PageTrees
  /\ AfterMkdir
  /\ allPosts = PostsList(<<PagesPost, PagesPostB, PagesPost1>>)
  /\ metaJson \in MetadataContents(postTree, {ValidMetadata})
  /\ Idle

NextPages ==
  \/ PagesStart
  \/ PagesScopeResolves
  \/ PagesScopeRejects
  \/ PagesWalkStart
  \/ PagesScanDir
  \/ PagesIgnoreFile
  \/ PagesRenderOk
  \/ PagesRenderThrows
  \/ PagesDone

SpecPages == InitPages /\ [][NextPages]_vars

\* the manifest read and checked
InitManifest ==
  /\ pc = "readManifest"
  /\ VERSION = V_1_0_0
  /\ manifestDirAbs \in {BASE_P, BASE_ROOT}
  /\ manifest \in RawManifests
  /\ staticTree = NoDir
  /\ postTree = NoDir
  /\ partialTree = NoDir
  /\ pageTree = NoDir
  /\ versionOk = NONE
  /\ sanityOk = NONE
  /\ outFs = EmptyFs
  /\ writes = <<>>
  /\ allPosts = NoPostsYet
  /\ metaJson \in MetadataContents(postTree, MainMetadata)
  /\ Idle

NextManifest ==
  \/ ReadManifest
  \/ CheckManifestVersion
  \/ ManifestSanityChecks

SpecManifest == InitManifest /\ [][NextManifest]_vars

\* two runs in a row on one site
TwicePostTrees ==
  {Tree({F_a_html, F_a_json, F_b_html, F_b_json}, {}),
   Tree({F_a_html, F_a_json}, {})}
TwicePageTrees ==
  {NoDir, Tree({<<"x", "/", "i", ".", "h", "b", "s">>, <<"c", ".", "t", "x", "t">>}, {})}

InitTwice ==
  /\ pc = "readManifest"
  /\ VERSION = V_1_0_0
  /\ manifestDirAbs = BASE_P
  /\ manifest \in {VersionOnlyManifest(V_1_0_0),
                   [VersionOnlyManifest(V_1_0_0) EXCEPT !.valid = FALSE],
                   DefaultManifest(<<"2", ".", "0", ".", "0">>),
                   [DefaultManifest(V_1_0_0) EXCEPT !.outputDir = <<".">>]}
  /\ staticTree \in MainStaticTrees
  /\ postTree \in TwicePostTrees \cup {Tree({F_s_a_html, F_s_a_json}, {})}
  /\ partialTree \in MainPartialTrees
  /\ pageTree \in TwicePageTrees
  /\ versionOk = NONE
  /\ sanityOk = NONE
  /\ outFs = EmptyFs
  /\ writes = <<>>
  /\ allPosts = NoPostsYet
  /\ metaJson \in MetadataContents(postTree, MainMetadata)
  /\ Idle

NextTwice == Next \/ RunAgain

SpecTwice == InitTwice /\ [][NextTwice]_vars

\* readdirR alone, as readAllPosts drives it, over deeper directories
MaxWalkFiles == 3
WalkFileUniverse ==
  {<<"f">>, <<"s", "/", "f">>, <<"s", "/", "g">>, <<"s", "/", "t", "/", "f">>, <<"u", "/", "f">>}
WalkEmptyDirs == {{}, {<<"e">>}, {<<"s", "/", "e">>}}
WalkTrees ==
  {Tree(F, E) : F \in {G \in SUBSET WalkFileUniverse : Cardinality(G) <= MaxWalkFiles},
                E \in WalkEmptyDirs}
    \cup {NoDir}

InitWalk ==
  /\ pc = "readPosts"
  /\ VERSION = V_1_0_0
  /\ manifestDirAbs = BASE_P
  /\ manifest = DefaultManifest(V_1_0_0)
  /\ staticTree = NoDir
  /\ postTree \in WalkTrees
  /\ partialTree = NoDir
  /\ pageTree = NoDir
  /\ AfterMkdir
  /\ allPosts = NoPostsYet
  /\ metaJson \in MetadataContents(postTree, MainMetadata)
  /\ Idle

NextWalk ==
  \/ PostsStart
  \/ PostsScanDir
  \/ PostsScanFile
  \/ PostsValidate

SpecWalk == InitWalk /\ [][NextWalk]_vars

\* the same with the loop going on: every awaited fs call of readdirR and
\* of the loop body returns, and the event loop then resumes the function
SpecWalkFair == SpecWalk /\ WF_vars(NextWalk)

(***************************************************************************)
(* Properties                                                              *)
(***************************************************************************)
\* one sequence of segments starts with another
IsSegmentPrefix(a, b) == Len(a) <= Len(b) /\ SubSeq(b, 1, Len(a)) = a

\* a declared path, resolved lexically against the site directory, as
\* segments; the site directory as segments
ResolvedSegments(relPath) == AbsSegments(PathResolve(manifestDirAbs, relPath))
RootSegments == AbsSegments(manifestDirAbs)

BelowProjectRoot(relPath) ==
  /\ IsSegmentPrefix(RootSegments, ResolvedSegments(relPath))
  /\ Len(ResolvedSegments(relPath)) > Len(RootSegments)

AtOrBelowOutputDir(relPath) ==
  IsSegmentPrefix(ResolvedSegments(manifest.outputDir), ResolvedSegments(relPath))

InputPaths ==
  {manifest.postSettings.postInputDir, manifest.postSettings.postTemplate,
   manifest.staticAssetsInputDir, manifest.partialTemplatesDir,
   manifest.additionalPageTemplatesDir}

\* C1: manifestSanityChecks returns false whenever one of the six declared
\* paths resolves to a path that is not below the project root, and whenever
\* one of the five input paths lies at or below the resolved output directory.
C1_PathContainment ==
  sanityOk # NONE =>
    (( \/ \E p \in InputPaths \cup {manifest.outputDir} : ~ BelowProjectRoot(p)
       \/ \E p \in InputPaths : AtOrBelowOutputDir(p))
     => sanityOk = "false")

\* C1: outputDir d/ with staticAssetsInputDir d/raw, every path inside the
\* project, was refused
C1_Witness ==
  /\ sanityOk = "false"
  /\ manifest.outputDir = <<"d", "/">>
  /\ manifest.staticAssetsInputDir = <<"d", "/", "r", "a", "w">>
  /\ \A p \in InputPaths \cup {manifest.outputDir} : BelowProjectRoot(p)
  /\ \A p \in InputPaths \ {manifest.staticAssetsInputDir} : ~ AtOrBelowOutputDir(p)

\* C2: manifestSanityChecks returns true for every manifest whose paths are
\* all below the project root and whose input paths are none at or below
\* the output directory (a sibling whose name starts with the output
\* directory's name included).
C2_InsideOutputIffDescendant ==
  sanityOk # NONE =>
    (( /\ \A p \in InputPaths \cup {manifest.outputDir} : BelowProjectRoot(p)
       /\ \A p \in InputPaths : ~ AtOrBelowOutputDir(p))
     => sanityOk = "true")

\* the checks of manifestSanityChecks that fail, as the lines they log
FailingChecks ==
  LET absBase == AbsBase(manifestDirAbs)
      absOut == AbsOut(manifestDirAbs, manifest)
      checked == {pathsToCheck(manifest)[i] : i \in DOMAIN pathsToCheck(manifest)}
  IN {OutsideLine("output directory", absOut) : x \in
        {y \in {1} : ~ checkIfOutsideOfProjectDir(absBase, absOut)}}
     \cup {OutsideLine(c.name, PathResolve(absBase, c.relPath)) : c \in
        {d \in checked :
           ~ checkIfOutsideOfProjectDir(absBase, PathResolve(absBase, d.relPath))}}
     \cup {InsideLine(c.name, PathResolve(absBase, c.relPath)) : c \in
        {d \in checked :
           ~ checkIfInsideOutputDir(absOut, PathResolve(absBase, d.relPath))}}

\* C3: the error lines manifestSanityChecks logs in one run are exactly the
\* failing (path, rule) checks, each naming the path and its role: every
\* check is evaluated even after an earlier one has failed.
C3_ExhaustiveValidation ==
  sanityOk # NONE => {log[i] : i \in DOMAIN log} = FailingChecks

\* C4: the first filesystem write of a run happens only after both
\* checkManifestVersion and manifestSanityChecks have returned true; a run
\* that a check ended has created and written nothing.
C4_NoWriteBeforeGuards ==
  /\ (writes # <<>> \/ outFs # EmptyFs) => (versionOk = "true" /\ sanityOk = "true")
  /\ (pc \in {"exit1", "crashed"} /\ (versionOk # "true" \/ sanityOk # "true"))
       => (writes = <<>> /\ outFs = EmptyFs)

\* C4: a run ended by a failed path check, with nothing written
C4_Witness ==
  /\ pc = "exit1"
  /\ versionOk = "true"
  /\ sanityOk = "false"
  /\ writes = <<>>
  /\ outFs = EmptyFs

\* the rule of C5 on two version triples
VersionRule(gen, man) ==
  /\ man.major = gen.major
  /\ \/ man.minor < gen.minor
     \/ man.minor = gen.minor /\ man.revision <= gen.revision

\* C5: checkManifestVersion accepts manifest version M.m.r against generator
\* version G.g.s exactly when M = G and (m < g, or m = g and r <= s);
\* generator 1.2.0 accepts 1.0.0, 1.1.9 and 1.2.0 and rejects 1.2.1, 1.3.0,
\* 2.0.0 and 0.9.0.
C5_VersionRule ==
  /\ versionOk # NONE =>
       versionOk = Bool(VersionRule(parseVersion(VERSION), parseVersion(manifest.version)))
  /\ \A v \in {V_1_0_0, <<"1", ".", "1", ".", "9">>, <<"1", ".", "2", ".", "0">>} :
       checkManifestVersion(<<"1", ".", "2", ".", "0">>, v)
  /\ \A v \in {<<"1", ".", "2", ".", "1">>, <<"1", ".", "3", ".", "0">>, <<"2", ".", "0", ".", "0">>, <<"0", ".", "9", ".", "0">>} :
       ~ checkManifestVersion(<<"1", ".", "2", ".", "0">>, v)

\* C5: a manifest with a lower minor and a higher revision was accepted
C5_Witness ==
  /\ versionOk = "true"
  /\ parseVersion(manifest.version).minor < parseVersion(VERSION).minor
  /\ parseVersion(manifest.version).revision > parseVersion(VERSION).revision

\* a file of the post directory by its extension, and its name without it
IsContentFile(f) == Len(f) >= 5 /\ ToLower(SubSeq(f, Len(f) - 4, Len(f))) = DOT_HTML
IsMetadataFile(f) == Len(f) >= 5 /\ ToLower(SubSeq(f, Len(f) - 4, Len(f))) = DOT_JSON
Stem(f) == SubSeq(f, 1, Len(f) - 5)

ContentOrphans ==
  {f \in postTree.files :
     /\ IsContentFile(f)
     /\ ~ \E g \in postTree.files : IsMetadataFile(g) /\ Stem(g) = Stem(f)}

MetadataOrphans ==
  {f \in postTree.files :
     /\ IsMetadataFile(f)
     /\ ~ \E g \in postTree.files : IsContentFile(g) /\ Stem(g) = Stem(f)}

UnrecognizedFiles ==
  {f \in postTree.files : ~ IsContentFile(f) /\ ~ IsMetadataFile(f)}

ValidPairs ==
  {Stem(f) : f \in {g \in postTree.files : IsContentFile(g)} \ ContentOrphans}

\* an error line of the kind lists the entry
Reported(kind, entry) ==
  \E i \in DOMAIN log :
    /\ log[i].level = "error"
    /\ log[i].kind = kind
    /\ \E k \in DOMAIN log[i].items : log[i].items[k] = entry

ValidationKinds ==
  {"No HTML found for posts", "No JSON found for posts", "Unrecognized post files"}

\* readAllPosts is past its validation
PostsValidated == pc \notin {"readPosts", "postsScan"}

\* C6: readAllPosts reports every content file without a metadata file of
\* the same name and every metadata file without a content file, and returns
\* false when there is one; when every file has its counterpart nothing is
\* reported and no false is returned.
C6_OrphansReported ==
  PostsValidated =>
    /\ \A f \in ContentOrphans : Reported("No JSON found for posts", Stem(f))
    /\ \A f \in MetadataOrphans : Reported("No HTML found for posts", Stem(f))
    /\ (ContentOrphans \cup MetadataOrphans # {}) => allPosts = PostsFalse
    /\ (ContentOrphans \cup MetadataOrphans \cup UnrecognizedFiles = {}) =>
         /\ \A i \in DOMAIN log : log[i].kind \notin ValidationKinds
         /\ allPosts # PostsFalse

\* C7: readAllPosts classifies every file of the post directory before it
\* validates; when a category of violation is not empty it logs every
\* non-empty category with every offending entry and returns false, an
\* unrecognized file being a violation like the others.
C7_ValidationNotShortCircuited ==
  PostsValidated =>
    /\ {discovered[i] : i \in DOMAIN discovered} = postTree.files
    /\ (ContentOrphans \cup MetadataOrphans \cup UnrecognizedFiles # {}) =>
         /\ allPosts = PostsFalse
         /\ \A f \in MetadataOrphans : Reported("No HTML found for posts", Stem(f))
         /\ \A f \in ContentOrphans : Reported("No JSON found for posts", Stem(f))
         /\ \A f \in UnrecognizedFiles : Reported("Unrecognized post files", f)

\* C8: when readAllPosts has returned false, the run ends with no file
\* created or copied into the output directory.
C8_NoPartialOutput ==
  (pc = "exit1" /\ allPosts = PostsFalse) =>
    /\ FilePaths(outFs) = {}
    /\ \A i \in DOMAIN writes : writes[i].op = "mkdir"

\* every file of one post was discovered before every file of the other
DiscoveredBefore(slugA, slugB) ==
  \A a, b \in DOMAIN discovered :
    ( /\ IsContentFile(discovered[a]) \/ IsMetadataFile(discovered[a])
      /\ Stem(discovered[a]) = slugA
      /\ IsContentFile(discovered[b]) \/ IsMetadataFile(discovered[b])
      /\ Stem(discovered[b]) = slugB ) => a < b

\* C9: the list readAllPosts returns is sorted by pubDate, newest first, is
\* a permutation of the valid pairs, and keeps posts of equal pubDate in the
\* order of their discovery.
C9_SortedStable ==
  allPosts.state = "list" =>
    LET l == allPosts.list
    IN /\ \A i, j \in DOMAIN l : i < j => l[i].pubDate >= l[j].pubDate
       /\ {l[i].slug : i \in DOMAIN l} = ValidPairs
       /\ Len(l) = Cardinality(ValidPairs)
       /\ \A i, j \in DOMAIN l :
            (i < j /\ l[i].pubDate = l[j].pubDate)
              => ~ DiscoveredBefore(l[j].slug, l[i].slug)

\* where the walk finds the page, and where its output belongs
PageSourcePath(f) == FsKey(additionalPagesPath) \o <<SLASH>> \o f
PageOutputPath(f) == FsKey(outDir) \o <<SLASH>> \o SubSeq(f, 1, Len(f) - 4)
IsPageTemplate(f) == Len(f) >= 4 /\ ToLower(SubSeq(f, Len(f) - 3, Len(f))) = DOT_HBS

\* C10: after a page walk that ended well, every file of the pages directory
\* whose name ends in .hbs, in any case, has its rendering at the same
\* relative path of the output directory less that suffix, the directory
\* names kept as they are; every other file has no output and a warning,
\* and no error.
C10_PageWalk ==
  pc = "done" =>
    \A f \in pageTree.files :
      IF IsPageTemplate(f)
      THEN /\ PageOutputPath(f) \in FilePaths(outFs)
           /\ outFs.files[PageOutputPath(f)].kind = "page"
      ELSE /\ \A q \in FilePaths(outFs) : outFs.files[q].src # f
           /\ \E i \in DOMAIN log :
                /\ log[i].level = "warn"
                /\ log[i].items = <<PageSourcePath(f)>>
           /\ \A i \in DOMAIN log :
                log[i].level = "error" => log[i].items # <<PageSourcePath(f)>>

\* C10: a walk that rendered x/j.HBS and y.hbs/k.hbs and ignored c.txt
C10_Witness ==
  /\ pc = "done"
  /\ pageTree.files = {<<"x", "/", "j", ".", "H", "B", "S">>,
                       <<"y", ".", "h", "b", "s", "/", "k", ".", "h", "b", "s">>,
                       <<"c", ".", "t", "x", "t">>}
  /\ <<"/", "p", "/", "d", "i", "s", "t", "/", "y", ".", "h", "b", "s", "/", "k">>
       \in FilePaths(outFs)

\* C11: readdirR yields every file below the root exactly once, whatever
\* order the listings come in, and never yields a directory.
C11_WalkVisitsOnce ==
  /\ \A i, j \in DOMAIN discovered : discovered[i] = discovered[j] => i = j
  /\ \A i \in DOMAIN discovered :
       discovered[i] \in postTree.files /\ discovered[i] \notin postTree.dirs
  /\ (pc \notin {"readPosts"} /\ queue = <<>>) =>
       {discovered[i] : i \in DOMAIN discovered} = postTree.files

\* C11: a finished walk of a directory with a file two levels down, a file
\* in the root and an empty directory
C11_Witness ==
  /\ pc = "exit1"
  /\ queue = <<>>
  /\ <<"s", "/", "t", "/", "f">> \in postTree.files
  /\ <<"f">> \in postTree.files
  /\ <<"s", "/", "e">> \in postTree.dirs
  /\ Len(discovered) = 3

\* what the output directory holds of one kind
OutputOfKind(kind) == {q \in FilePaths(outFs) : outFs.files[q].kind = kind}

\* C12: a missing static, partials or pages directory is no error: the
\* stage is left for the next one with nothing logged, written or
\* registered, and a run that ends well has copied no asset, registered no
\* partial or rendered no page for the directory that is missing.
C12_MissingDirsAreNoError ==
  /\ [][ /\ (pc = "copyStatic" /\ ~ staticTree.exists)
              => (pc' = "readPosts" /\ outFs' = outFs /\ log' = log)
         /\ (pc = "partials" /\ ~ partialTree.exists)
              => (pc' = "compilePostTemplate" /\ partials' = partials /\ log' = log)
         /\ (pc = "pagesStart" /\ ~ pageTree.exists)
              => (pc' = "done" /\ outFs' = outFs /\ log' = log) ]_vars
  /\ [](pc = "done" =>
          /\ ~ staticTree.exists => OutputOfKind("static") = {}
          /\ ~ partialTree.exists => partials = {}
          /\ ~ pageTree.exists => OutputOfKind("page") = {})

\* C12: a run that ended well with all three directories missing and two
\* posts written
C12_Witness ==
  /\ pc = "done"
  /\ ~ staticTree.exists
  /\ ~ partialTree.exists
  /\ ~ pageTree.exists
  /\ Cardinality(OutputOfKind("post")) = 2
  /\ \A i \in DOMAIN log : log[i].level # "error"

\* the stage a position of main belongs to: 1 manifest load, 2 guards,
\* 3 static copy, 4 corpus build, 5 partials, 6 post rendering, 7 page walk,
\* 8 the end, 9 a run that was ended
StageRank(position) ==
  CASE position = "readManifest" -> 1
    [] position \in {"checkVersion", "sanity"} -> 2
    [] position \in {"mkdirOut", "copyStatic"} -> 3
    [] position \in {"readPosts", "postsScan", "postsParse"} -> 4
    [] position \in {"partials", "partialsScan"} -> 5
    [] position \in {"compilePostTemplate", "writePosts"} -> 6
    [] position \in {"pagesStart", "pagesScopes", "pagesScan"} -> 7
    [] position = "done" -> 8
    [] OTHER -> 9

WriteRank(op) ==
  CASE op = "mkdir" -> 1
    [] op = "copy" -> 2
    [] op = "writePost" -> 3
    [] OTHER -> 4

CorpusBuildStarted ==
  discovered # <<>> \/ posts # EmptyObject \/ allPosts # NoPostsYet

\* C13: the stages run in the order manifest load, guards, static copy,
\* corpus build, partials, post rendering, page walk: a run moves only
\* within a stage, to the next stage or to its end, and what a stage leaves
\* behind is there only when every earlier stage has completed.
C13_StageOrder ==
  /\ [][ \/ StageRank(pc') = StageRank(pc)
         \/ StageRank(pc') = StageRank(pc) + 1
         \/ StageRank(pc') = 9 ]_vars
  /\ [](/\ \A i, j \in DOMAIN writes :
             i < j => WriteRank(writes[i].op) <= WriteRank(writes[j].op)
        /\ (versionOk # NONE \/ sanityOk # NONE) => manifest.valid
        /\ outFs # EmptyFs => (versionOk = "true" /\ sanityOk = "true")
        /\ CorpusBuildStarted =>
             /\ FsKey(outDir) \in outFs.dirs
             /\ \A f \in staticTree.files :
                  FsKey(PathJoin(outDir, f)) \in OutputOfKind("static")
        /\ partials # {} => allPosts.state = "list"
        /\ OutputOfKind("post") # {} =>
             (allPosts.state = "list" /\ partials = partialTree.files)
        /\ (OutputOfKind("page") # {} \/ allPostsForScope # <<>>) =>
             \A i \in DOMAIN allPosts.list :
               FsKey(PathJoin(outDir, postFilenameTemplate(allPosts.list[i].slug)))
                 \in OutputOfKind("post"))

\* C13: a run through every stage: an asset copied, two posts written, a
\* partial registered and a page rendered
C13_Witness ==
  /\ pc = "done"
  /\ OutputOfKind("static") # {}
  /\ Cardinality(OutputOfKind("post")) = 2
  /\ partials # {}
  /\ OutputOfKind("page") # {}

\* main is at or past the first Handlebars.compile of the run
TemplatesCompiling ==
  pc \in {"compilePostTemplate", "writePosts", "pagesStart", "pagesScopes",
         "pagesScan", "done"}

\* C14: every partial is registered before the first template is compiled,
\* and none after: the registry changes only in readPartialTemplates, and
\* from the first compile on it holds every partial file and stays as it is.
C14_PartialsBeforeTemplates ==
  /\ [][ /\ partials' # partials => (pc = "partialsScan" /\ ~ TemplatesCompiling)
         /\ TemplatesCompiling => partials' = partials ]_vars
  /\ [](TemplatesCompiling => partials = partialTree.files)
  /\ []((OutputOfKind("post") \cup OutputOfKind("page") # {})
          => partials = partialTree.files)

\* C14: posts are being rendered with a partial in the registry
C14_Witness ==
  /\ pc = "writePosts"
  /\ partials # {}
  /\ partials = partialTree.files
  /\ OutputOfKind("post") # {}

\* where the default output-path template puts the post with this slug
DefaultPostPath(slug) ==
  FsKey(outDir) \o <<SLASH>> \o POSTS_SLASH \o slug \o SLASH_INDEX_HTML

\* C15: after a run that ended well every post of the corpus has its
\* rendering at posts/<slug>/index.html below the output directory, the
\* default output-path template rendered for the post, with every directory
\* above it created.
C15_PostsWritten ==
  pc = "done" =>
    \A i \in DOMAIN allPosts.list :
      LET post == allPosts.list[i]
      IN /\ DefaultPostPath(post.slug) \in OutputOfKind("post")
         /\ outFs.files[DefaultPostPath(post.slug)].src = post.slug
         /\ SelfAndAncestors(PathDirname(DefaultPostPath(post.slug))) \subseteq outFs.dirs

\* the exit code of the process: 0 when main returns, 1 after
\* process.exit(1) and after an error main does not catch, -1 while it runs
ExitCode ==
  CASE pc = "done" -> 0
    [] pc \in {"exit1", "crashed"} -> 1
    [] OTHER -> -1

ErrorLogged == \E i \in DOMAIN log : log[i].level = "error"

DocumentedDefaults(ver) ==
  [valid |-> TRUE,
   version |-> ver,
   outputDir |-> <<"d", "i", "s", "t", "/">>,
   staticAssetsInputDir |-> <<"s", "t", "a", "t", "i", "c", "/">>,
   partialTemplatesDir |-> <<"t", "e", "m", "p", "l", "a", "t", "e", "s", "/", "p", "a", "r", "t", "i", "a", "l", "s", "/">>,
   additionalPageTemplatesDir |-> <<"t", "e", "m", "p", "l", "a", "t", "e", "s", "/", "a", "d", "d", "i", "t", "i", "o", "n", "a", "l", "P", "a", "g", "e", "s", "/">>,
   postSettings |->
     [present |-> TRUE,
      postInputDir |-> <<"p", "o", "s", "t", "s", "/">>,
      postOutputFileTemplate |-> <<"p", "o", "s", "t", "s", "/", "{", "{", "p", "o", "s", "t", ".", "s", "l", "u", "g", "}", "}", "/", "i", "n", "d", "e", "x", ".", "h", "t", "m", "l">>,
      postTemplate |-> <<"t", "e", "m", "p", "l", "a", "t", "e", "s", "/", "p", "o", "s", "t", ".", "h", "t", "m", "l", ".", "h", "b", "s">>,
      postPubDate |-> [present |-> TRUE,
                       formatString |-> <<"D", "D", "D">>,
                       locale |-> <<"e", "n", "-", "U", "S">>]]]

\* C17: parsing a manifest that has only its version succeeds and gives
\* every optional field its documented default, ...
C17_DefaultsFilled ==
  [][(pc = "readManifest" /\ manifest = VersionOnlyManifest(manifest.version))
       => (pc' = "checkVersion" /\ manifest' = DocumentedDefaults(manifest.version))]_vars

\* C17: ... and the default manifest passes manifestSanityChecks.
C17_DefaultManifest ==
  /\ C17_DefaultsFilled
  /\ []((sanityOk # NONE /\ manifest = DocumentedDefaults(manifest.version))
          => sanityOk = "true")

\* C18: a second run on the unchanged site leaves the output tree as the
\* first run left it, the same paths with the same contents, in whatever
\* order the directory listings come.
C18_Idempotent ==
  (runNo = 2 /\ pc = "done") => outFs = firstRun.out

\* the path readAllPosts has for a file of the post directory
PostFilePath(f) == FsKey(postDir) \o <<SLASH>> \o f

PostsOfFile(f) ==
  {i \in DOMAIN allPosts.list :
     \/ allPosts.list[i].pathToHtml = PostFilePath(f)
     \/ allPosts.list[i].pathToJson = PostFilePath(f)}

\* C19: when readAllPosts returns a list there are as many posts as content
\* files discovered and as metadata files discovered, every discovered file
\* is the content or the metadata path of exactly one post, and no two
\* posts have the same slug.
C19_OnePostPerPair ==
  allPosts.state = "list" =>
    LET l == allPosts.list
        found == {discovered[i] : i \in DOMAIN discovered}
    IN /\ Len(l) = Cardinality({f \in found : IsContentFile(f)})
       /\ Len(l) = Cardinality({f \in found : IsMetadataFile(f)})
       /\ \A f \in found : Cardinality(PostsOfFile(f)) = 1
       /\ \A i, j \in DOMAIN l : l[i].slug = l[j].slug => i = j

\* the name of a post file without its directories and its extension
BaseStem(f) == Stem(BaseName(f))

\* every file is a content or a metadata file and has a file of the other
\* kind with the same base name somewhere below the post directory
PairedByBaseName ==
  \A f \in postTree.files :
    \/ IsContentFile(f)
         /\ \E g \in postTree.files : IsMetadataFile(g) /\ BaseStem(g) = BaseStem(f)
    \/ IsMetadataFile(f)
         /\ \E g \in postTree.files : IsContentFile(g) /\ BaseStem(g) = BaseStem(f)

\* C20: the slug of a post is the base name of its files without the
\* extension, with no directory in it, and a content file and a metadata
\* file of the same base name form one post wherever they lie below the
\* post directory.
C20_SlugIsBaseName ==
  /\ allPosts.state = "list" =>
       \A i \in DOMAIN allPosts.list :
         /\ allPosts.list[i].slug = BaseStem(allPosts.list[i].pathToHtml)
         /\ SlashesOf(allPosts.list[i].slug) = {}
  /\ (PostsValidated /\ PairedByBaseName) => allPosts # PostsFalse

\* the metadata file was parsed and its post is in the list
MetadataAccepted(f) ==
  \E i \in DOMAIN result : result[i].pathToJson = PostFilePath(f)

\* parsing the metadata file threw
MetadataRefused(f) == Reported("Error reading metadata for post", f)

\* an object with a string title and a valid pubDate with an offset, and
\* nothing wrong beside what showPubDate may hold
TitleAndPubDateValid(m) ==
  /\ m.isObject
  /\ m.schemaKey \in {"absent", "string"}
  /\ ~ m.otherKey
  /\ m.title = "string"
  /\ PubDateAccepted(m.pubDate)

C21_ShowPubDateRefused ==
  \E f \in DOMAIN metaJson :
    /\ TitleAndPubDateValid(metaJson[f])
    /\ metaJson[f].showPubDate = "false"
    /\ MetadataRefused(f)
    /\ pc = "crashed"

PostFailedAt(k) ==
  /\ allPosts.state = "list"
  /\ k \in DOMAIN allPosts.list
  /\ Reported("Error processing post", allPosts.list[k].slug)

\* the writes of this run that wrote the rendering of the post
PostWrites(post) ==
  {i \in DOMAIN writes :
     /\ writes[i].op = "writePost"
     /\ FsKey(writes[i].path) \in FilePaths(outFs)
     /\ outFs.files[FsKey(writes[i].path)] = Content("post", post.slug, <<>>)}

\* C22: when rendering or writing fails for the k-th post of the sorted
\* list, the run aborts at that post with its slug logged: no later post
\* and no additional page is written, the run does not go on to the next
\* post, and the files of the earlier posts remain on disk.
C22_AbortAtFailingPost ==
  /\ [](\A k \in 1..MaxPostFiles :
          PostFailedAt(k) =>
            /\ pc = "crashed"
            /\ idx = k
            /\ log[Len(log)] = LogLine("error", "Error processing post", "",
                                       <<allPosts.list[k].slug>>)
            /\ \A i \in DOMAIN allPosts.list :
                 /\ i < k => PostWrites(allPosts.list[i]) # {}
                 /\ i >= k => PostWrites(allPosts.list[i]) = {}
            /\ Cardinality({i \in DOMAIN writes : writes[i].op = "writePost"}) = k - 1
            /\ \A i \in DOMAIN writes : writes[i].op # "writePage"
            /\ OutputOfKind("page") = {}
            /\ allPostsForScope = <<>>)
  /\ [][pc = "crashed" => UNCHANGED vars]_vars

\* the second of two posts failed after the first was written
C22_Witness ==
  /\ PostFailedAt(2)
  /\ pc = "crashed"
  /\ PostWrites(allPosts.list[1]) # {}
  /\ pageTree.exists

\* the metadata files of the posts of the directory (a content file of the
\* same name exists) that violate the schema
InvalidPostMetadata ==
  {f \in postTree.files \ MetadataOrphans :
     IsMetadataFile(f) /\ ~ schemaPostMetadata(metaJson[f])}

\* the run is past readAllPosts and has not ended by an error
PastCorpusBuild == StageRank(pc) \in 5..8

\* C23: the metadata of every post is parsed and validated before any post
\* is rendered: when the metadata of a post violates the schema the run
\* never gets past the corpus build, whatever the position of the post, no
\* post page and no additional page is written, and the error that ends the
\* parsing names a post whose metadata is invalid.
C23_MetadataBeforeRender ==
  /\ InvalidPostMetadata # {} =>
       /\ ~ PastCorpusBuild
       /\ OutputOfKind("post") = {}
       /\ OutputOfKind("page") = {}
       /\ \A i \in DOMAIN writes : writes[i].op \notin {"writePost", "writePage"}
  /\ \A f \in postTree.files :
       MetadataRefused(f) => (f \in InvalidPostMetadata /\ pc = "crashed")
  /\ PastCorpusBuild =>
       \A f \in postTree.files \ MetadataOrphans :
         IsMetadataFile(f) => MetadataAccepted(f)

\* the list is the scope of every post of the sorted list, in its order
ScopesInListOrder(scopes) ==
  /\ DOMAIN scopes = DOMAIN allPosts.list
  /\ \A i \in DOMAIN allPosts.list :
       /\ scopes[i].slug = allPosts.list[i].slug
       /\ scopes[i].pubDate = allPosts.list[i].pubDate
       /\ scopes[i].content = allPosts.list[i].pathToHtml
  /\ \A i, j \in DOMAIN scopes : i < j => scopes[i].pubDate >= scopes[j].pubDate

\* the walk of the page directory has started
PageRenderingStarted == pc = "pagesScan" \/ OutputOfKind("page") # {} \/ foundAny

\* C24: the allPosts list given to every page template is in the newest-first
\* order of the sorted list, whatever the order in which the scope
\* constructions started together complete: element i is the scope of post
\* i, and the rendering of pages starts only when all of them have completed.
C24_ScopeOrder ==
  /\ PageRenderingStarted =>
       /\ Pending = {}
       /\ ScopesInListOrder(allPostsForScope)
  /\ \A q \in OutputOfKind("page") :
       outFs.files[q].scope = [i \in DOMAIN allPosts.list |-> allPosts.list[i].slug]

\* a page was rendered after the scopes of three posts completed last first
C24_Witness ==
  /\ settled = <<3, 2, 1>>
  /\ OutputOfKind("page") # {}
  /\ ScopesInListOrder(allPostsForScope)

\* C25: only the static, partials and pages directories may be missing:
\* when the post input directory does not exist the run is a fatal error
\* with a nonzero exit code; it never goes on past the corpus build and
\* never ends well as a site with zero posts.
C25_MissingPostDirIsFatal ==
  ~ postTree.exists =>
    /\ ExitCode # 0
    /\ ~ PastCorpusBuild
    /\ allPosts.state # "list"

\* the files and directories of the post directory below an entry
EntriesBelow(e) ==
  {x \in postTree.files \cup postTree.dirs :
     Len(x) > Len(e) + 1 /\ SubSeq(x, 1, Len(e) + 1) = e \o <<SLASH>>}

\* what the walk has still to pop: the entries of the worklist and
\* everything below them
RECURSIVE WalkWeight(_)
WalkWeight(q) ==
  IF q = <<>> THEN 0
  ELSE 1 + Cardinality(EntriesBelow(Head(q))) + WalkWeight(Tail(q))

\* the loop of readdirR over the post directory has ended
WalkEnded == pc \notin {"readPosts", "postsScan"}

\* C26: readdirR terminates on every finite directory tree: the worklist
\* starts as the listing of the root, every step of the loop removes the
\* entry it pops and leaves exactly one entry less to visit (a directory is
\* replaced by its listing once, a file is yielded with its path relative to
\* the root), and the worklist becomes empty; for a root that does not
\* exist the walk yields nothing, logs nothing and ends.
C26_WalkTerminates ==
  /\ <>(WalkEnded /\ queue = <<>>)
  /\ [][ /\ pc = "readPosts" =>
              WalkWeight(queue') = Cardinality(postTree.files \cup postTree.dirs)
         /\ (pc = "postsScan" /\ pc' = "postsScan") =>
              /\ queue # <<>>
              /\ Len(queue') >= Len(queue) - 1
              /\ SubSeq(queue', 1, Len(queue) - 1) = SubSeq(queue, 1, Len(queue) - 1)
              /\ WalkWeight(queue') = WalkWeight(queue) - 1
              /\ \/ /\ Popped(queue) \in postTree.dirs
                    /\ discovered' = discovered
                    /\ {queue'[i] : i \in Len(queue)..Len(queue')}
                         = {x \in postTree.files \cup postTree.dirs :
                              ParentOf(x) = Popped(queue)}
                 \/ /\ Popped(queue) \in postTree.files
                    /\ discovered' = Append(discovered, Popped(queue))
                    /\ Len(queue') = Len(queue) - 1
         /\ (pc = "postsScan" /\ pc' # "postsScan") => queue = <<>> ]_vars
  /\ [](WalkEnded =>
          /\ {discovered[i] : i \in DOMAIN discovered} = postTree.files
          /\ Len(discovered) = Cardinality(postTree.files))
  /\ [](~ postTree.exists =>
          /\ queue = <<>> /\ discovered = <<>> /\ log = <<>>
          /\ pc \in {"readPosts", "postsScan", "postsParse"})

\* a walk that ended after it expanded s, s/t and the empty directory e
C26_Witness ==
  /\ WalkEnded
  /\ queue = <<>>
  /\ postTree.files = {<<"f">>, <<"s", "/", "g">>, <<"s", "/", "t", "/", "f">>}
  /\ <<"e">> \in postTree.dirs
  /\ Len(discovered) = 3

====
